---------------------------- MODULE Spec2Model ----------------------------
(***************************************************************************)
(* train-conductor: the symlink synchronisation engine of src/symlinks.ts. *)
(*                                                                         *)
(* A path is the sequence of its segments (<<"T","d","f">> is /T/d/f), so  *)
(* join is concatenation and dirname drops the last segment.  The file     *)
(* system is a function from paths to entries; an entry is absent, a       *)
(* regular file, a directory or a symbolic link carrying its link text.    *)
(* Every system call resolves the symbolic links on the way to its final   *)
(* component, as the kernel does.                                          *)
(***************************************************************************)
EXTENDS Naturals, Sequences, FiniteSets, TLC

(***************************************************************************)
(* Bounds of the model.                                                    *)
(***************************************************************************)
\* symbolic links followed while resolving one path before ELOOP
MaxLinkDepth == 3
\* rules, tree and pattern together, in one configuration
MaxRules == 2

(***************************************************************************)
(* Paths.                                                                  *)
(***************************************************************************)
rootPath == <<"S">>
worktreePath == <<"T">>
\* a directory outside both trees, the "somewhere else" of a foreign link
elsewherePath == <<"X">>

join(a, b) == a \o b
dirname(p) == SubSeq(p, 1, Len(p) - 1)
basename(p) == p[Len(p)]
IsPrefix(a, b) == Len(a) <= Len(b) /\ SubSeq(b, 1, Len(a)) = a
\* relative(from, to) of @std/path, for a path below from
relative(from, to) == SubSeq(to, Len(from) + 1, Len(to))

\* the relative paths of the source tree, in the order of a sorted walk
RelOrder ==
  << <<"d">>, <<"d", "dist">>, <<"d", "dist", "g">>, <<"d", "dist", "h">>,
     <<"d", "f">> >>
RelPaths == {RelOrder[i] : i \in 1..Len(RelOrder)}
\* where a relative path lands when T/d is a link to the directory elsewhere
ElsewhereOf(rel) == join(elsewherePath, SubSeq(rel, 2, Len(rel)))
Paths ==
  {rootPath, worktreePath, elsewherePath}
    \cup {join(rootPath, r) : r \in RelPaths}
    \cup {join(worktreePath, r) : r \in RelPaths}
    \cup {ElsewhereOf(r) : r \in RelPaths}

(***************************************************************************)
(* Entries and the system calls the engine issues.                         *)
(***************************************************************************)
Absent == [k |-> "none", to |-> <<>>]
File == [k |-> "file", to |-> <<>>]
Dir == [k |-> "dir", to |-> <<>>]
Link(text) == [k |-> "link", to |-> text]

Entry(fs, p) == IF p \in DOMAIN fs THEN fs[p] ELSE Absent

Ok(p) == [err |-> "", path |-> p]
Err(e) == [err |-> e, path |-> <<>>]

\* The place a path names after every symbolic link on it, the last
\* component included, has been followed (stat, readDir, mkdir's parent).
RECURSIVE Resolve(_, _, _)

\* the entry q of a resolved directory: missing, a link to follow, or q
ResolveEntry(fs, q, fuel) ==
  CASE Entry(fs, q).k = "none" -> Err("NotFound")
    [] Entry(fs, q).k = "link" ->
         IF fuel = 0 THEN Err("FilesystemLoop")
         ELSE Resolve(fs, Entry(fs, q).to, fuel - 1)
    [] OTHER -> Ok(q)

\* the entry called name of the resolved parent par
ResolveIn(fs, par, name, fuel) ==
  IF par.err # "" THEN par
  ELSE IF Entry(fs, par.path).k # "dir" THEN Err("NotADirectory")
  ELSE ResolveEntry(fs, join(par.path, <<name>>), fuel)

Resolve(fs, p, fuel) ==
  IF Len(p) = 1
  THEN IF Entry(fs, p).k = "none" THEN Err("NotFound") ELSE Ok(p)
  ELSE CHOOSE r \in {ResolveIn(fs, par, basename(p), fuel) :
                        par \in {Resolve(fs, dirname(p), fuel)}} : TRUE

LocateIn(fs, par, name) ==
  IF par.err # "" THEN par
  ELSE IF Entry(fs, par.path).k # "dir" THEN Err("NotADirectory")
  ELSE Ok(join(par.path, <<name>>))

\* The place of the final component itself, links followed on the way to
\* it only (lstat, readLink, symlink, mkdir).
Locate(fs, p) ==
  IF Len(p) = 1 THEN Ok(p)
  ELSE LocateIn(fs, Resolve(fs, dirname(p), MaxLinkDepth), basename(p))

lstatAt(fs, at) ==
  IF at.err # "" THEN [err |-> at.err, entry |-> Absent]
  ELSE IF Entry(fs, at.path).k = "none"
       THEN [err |-> "NotFound", entry |-> Absent]
       ELSE [err |-> "", entry |-> Entry(fs, at.path)]

\* Deno.lstat: the entry at the path, or the error
lstat(fs, p) == lstatAt(fs, Locate(fs, p))

statAt(fs, at) ==
  IF at.err # "" THEN [err |-> at.err, entry |-> Absent]
  ELSE [err |-> "", entry |-> Entry(fs, at.path)]

\* Deno.stat: the entry the path resolves to
stat(fs, p) == statAt(fs, Resolve(fs, p, MaxLinkDepth))

\* a create that replaces whatever is at the place
CreateOver(fs, at, entry) ==
  IF at.err # "" THEN [err |-> at.err, fs |-> fs]
  ELSE IF at.path \notin DOMAIN fs THEN [err |-> "NotFound", fs |-> fs]
  ELSE [err |-> "", fs |-> [fs EXCEPT ![at.path] = entry]]

\* a new entry at a located place: fails when anything, a dangling link
\* included, is there; never replaces an entry
CreateAt(fs, at, entry) ==
  IF at.err # "" THEN [err |-> at.err, fs |-> fs]
  ELSE IF Entry(fs, at.path).k # "none" THEN [err |-> "AlreadyExists", fs |-> fs]
  ELSE IF at.path \notin DOMAIN fs THEN [err |-> "NotFound", fs |-> fs]
  ELSE [err |-> "", fs |-> [fs EXCEPT ![at.path] = entry]]

\* a call that reports success and makes no link
symlinkNothing(fs, text, p) == [err |-> "", fs |-> fs]

\* Deno.symlink(text, p)
symlink(fs, text, p) == CreateAt(fs, Locate(fs, p), Link(text))

\* mkdir(2) of one directory
mkdir(fs, p) == CreateAt(fs, Locate(fs, p), Dir)

IsDir(s) == s.err = "" /\ s.entry.k = "dir"
IsDirectory(fs, p) == IsDir(stat(fs, p))

\* Deno.mkdir(p, {recursive: true}): make p; if its parent is missing make
\* the ancestors and then p; an existing directory is no error, any other
\* existing entry is
RECURSIVE mkdirRecursive(_, _)

mkdirAgain(fs, p, again) ==
  IF again.err # "" /\ IsDirectory(fs, p) THEN [err |-> "", fs |-> fs] ELSE again

mkdirBelow(p, up) ==
  IF up.err # "" THEN up ELSE mkdirAgain(up.fs, p, mkdir(up.fs, p))

mkdirAfter(fs, p, first) ==
  CASE first.err = "" -> first
    [] first.err = "NotFound" /\ Len(p) > 1 ->
         CHOOSE m \in {mkdirBelow(p, up) : up \in {mkdirRecursive(fs, dirname(p))}} :
           TRUE
    [] OTHER -> IF IsDirectory(fs, p) THEN [err |-> "", fs |-> fs] ELSE first

mkdirRecursive(fs, p) == mkdirAfter(fs, p, mkdir(fs, p))

ensureDirMade(fs, p, m) ==
  IF m.err = "AlreadyExists"
  THEN IF IsDirectory(fs, p) THEN [err |-> "", fs |-> fs]
       ELSE [err |-> "NotFound", fs |-> fs]
  ELSE m

ensureDirAfter(fs, p, s) ==
  CASE s.err = "" /\ s.entry.k = "dir" -> [err |-> "", fs |-> fs]
    [] s.err = "" -> [err |-> "NotADirectory", fs |-> fs]
    [] s.err # "NotFound" -> [err |-> s.err, fs |-> fs]
    [] OTHER -> ensureDirMade(fs, p, mkdirRecursive(fs, p))

\* ensureDir of @std/fs: nothing to do for a directory, an error for any
\* other entry, mkdir -p for a missing path
ensureDir(fs, p) == ensureDirAfter(fs, p, stat(fs, p))

(***************************************************************************)
(* PathInspector.                                                          *)
(***************************************************************************)
NoPathInfo ==
  [exists |-> FALSE, isSymlink |-> FALSE, isDirectory |-> FALSE, linkTarget |-> <<>>]

\* isDirectory as lstat gives it, of the entry itself
PathInfoOfEntry(fs, p, l) ==
  IF l.err # "" THEN NoPathInfo
  ELSE IF l.entry.k = "link"
       THEN [exists |-> TRUE, isSymlink |-> TRUE,
             isDirectory |-> l.entry.k = "dir", linkTarget |-> l.entry.to]
       ELSE [exists |-> TRUE, isSymlink |-> FALSE,
             isDirectory |-> l.entry.k = "dir", linkTarget |-> <<>>]

PathInfoOf(fs, p, l) ==
  IF l.err # "" THEN NoPathInfo
  ELSE IF l.entry.k = "link"
       THEN [exists |-> TRUE, isSymlink |-> TRUE,
             isDirectory |-> IsDirectory(fs, p), linkTarget |-> l.entry.to]
       ELSE [exists |-> TRUE, isSymlink |-> FALSE,
             isDirectory |-> l.entry.k = "dir", linkTarget |-> <<>>]

\* getPathInfo: lstat, then for a link readLink and stat; any failure of
\* lstat is "does not exist".  linkTarget null is the empty path.
getPathInfo(fs, p) == PathInfoOf(fs, p, lstat(fs, p))

(***************************************************************************)
(* LinkOutcome (SymlinkResult) and the reasons createSymlink gives.        *)
(***************************************************************************)
NoReason == [msg |-> "", arg |-> <<>>]
SourceMissing(source) == [msg |-> "Source does not exist", arg |-> source]
AlreadyCorrect ==
  [msg |-> "Symlink already exists and points to correct source", arg |-> <<>>]
OtherLink(text) ==
  [msg |-> "Existing symlink points to different target", arg |-> text]
LocalOverride ==
  [msg |-> "Local file/directory exists (preserving local override)", arg |-> <<>>]
CreateFailed(e) == [msg |-> "Failed to create symlink", arg |-> <<e>>]
DirLinkExists == [msg |-> "Directory symlink already exists", arg |-> <<>>]

Outcome(source, target, success, action, reason) ==
  [source |-> source, target |-> target, success |-> success,
   action |-> action, reason |-> reason]

(***************************************************************************)
(* createSymlink, one await at a time.  A call is a frame; pc names the    *)
(* await the call is suspended at, and each step is that system call       *)
(* together with the synchronous code up to the next await.                *)
(*   src      getPathInfo(source)                                          *)
(*   dryprobe getPathInfo(target) of the dry-run                           *)
(*   try      the optimistic Deno.symlink                                  *)
(*   probe    getPathInfo(target) after AlreadyExists                      *)
(*   mkdir    ensureDir(dirname(target)) after NotFound                    *)
(*   retry    the second Deno.symlink                                      *)
(*   done     returned; result is the SymlinkResult                        *)
(***************************************************************************)
NoTargetInfo == [given |-> FALSE, info |-> NoPathInfo]
GivenTargetInfo(info) == [given |-> TRUE, info |-> info]

NoOutcome == Outcome(<<>>, <<>>, FALSE, "", NoReason)

\* const result = { source, target, success: true, action: "created" }
Created(fr) == Outcome(fr.source, fr.target, TRUE, "created", NoReason)
\* { ...result, action: "skipped", reason }
Skipped(fr, reason) == Outcome(fr.source, fr.target, TRUE, "skipped", reason)
\* a failure that keeps success: true of the initial result
FailedAsSuccess(fr, reason) == Outcome(fr.source, fr.target, TRUE, "error", reason)

\* { ...result, success: false, action: "error", reason }
Failed(fr, reason) == Outcome(fr.source, fr.target, FALSE, "error", reason)

Return(fr, result) == [fr EXCEPT !.pc = "done", !.result = result]

\* a reclassification that takes every link for a link to the source
ReclassifyAnyLink(fr, info) ==
  IF info.isSymlink THEN Skipped(fr, AlreadyCorrect) ELSE Skipped(fr, LocalOverride)

\* the skip a target that is in the way gets: a link to the source, a link
\* to something else, or a real entry
Reclassify(fr, info) ==
  IF info.isSymlink
  THEN IF info.linkTarget = fr.source
       THEN Skipped(fr, AlreadyCorrect)
       ELSE Skipped(fr, OtherLink(info.linkTarget))
  ELSE Skipped(fr, LocalOverride)

\* lines 212-265 and 267-270 up to their first await: the pre-fetched
\* targetInfo, then the dry-run or the real attempt
AfterSource(fr) ==
  IF fr.targetInfo.given /\ fr.targetInfo.info.exists
  THEN Return(fr, Reclassify(fr, fr.targetInfo.info))
  ELSE IF fr.dryRun
       THEN IF ~fr.targetInfo.given
            THEN [fr EXCEPT !.pc = "dryprobe"]
            ELSE Return(fr, Created(fr))
       ELSE [fr EXCEPT !.pc = "try"]

\* the call, up to its first await
NewFrame(source, target, dryRun, targetInfo) ==
  [source |-> source, target |-> target, dryRun |-> dryRun,
   targetInfo |-> targetInfo, pc |-> "src", result |-> NoOutcome]

createSymlink(source, target, dryRun, sourceExists, targetInfo) ==
  IF ~sourceExists
  THEN NewFrame(source, target, dryRun, targetInfo)
  ELSE AfterSource(NewFrame(source, target, dryRun, targetInfo))

Step(fr, fs) == [fr |-> fr, fs |-> fs]

\* if (!sourceInfo.exists) return the error, else go on
SourceProbed(fr, fs, sourceInfo) ==
  IF ~sourceInfo.exists
  THEN Step(Return(fr, Failed(fr, SourceMissing(fr.source))), fs)
  ELSE Step(AfterSource(fr), fs)

\* a call that does not look at the source
CsSourceUnchecked(fr, fs) == [fr |-> AfterSource(fr), fs |-> fs]

\* await getPathInfo(source)
CsSource(fr, fs) == SourceProbed(fr, fs, getPathInfo(fs, fr.source))

\* a dry-run that reports created without looking at the target
DryProbedCreated(fr, fs, info) == [fr |-> Return(fr, Created(fr)), fs |-> fs]

DryProbed(fr, fs, info) ==
  IF info.exists
  THEN Step(Return(fr, Reclassify(fr, info)), fs)
  ELSE Step(Return(fr, Created(fr)), fs)

\* await getPathInfo(target) in dry-run
CsDryProbe(fr, fs) == DryProbed(fr, fs, getPathInfo(fs, fr.target))

\* an attempt that takes AlreadyExists for success
TriedBlind(fr, fs, r) ==
  CASE r.err \in {"", "AlreadyExists"} -> [fr |-> Return(fr, Created(fr)), fs |-> r.fs]
    [] r.err = "NotFound" -> [fr |-> [fr EXCEPT !.pc = "mkdir"], fs |-> fs]
    [] OTHER -> [fr |-> Return(fr, Failed(fr, CreateFailed(r.err))), fs |-> fs]

Tried(fr, fs, r) ==
  CASE r.err = "" -> Step(Return(fr, Created(fr)), r.fs)
    [] r.err = "AlreadyExists" -> Step([fr EXCEPT !.pc = "probe"], fs)
    [] r.err = "NotFound" -> Step([fr EXCEPT !.pc = "mkdir"], fs)
    [] OTHER -> Step(Return(fr, Failed(fr, CreateFailed(r.err))), fs)

\* await Deno.symlink(source, target), the optimistic attempt
CsTry(fr, fs) == Tried(fr, fs, symlink(fs, fr.source, fr.target))

\* a call that takes a link to its source, found after AlreadyExists, for
\* its own work
ReprobedAsCreated(fr, fs, info) ==
  IF info.isSymlink /\ info.linkTarget = fr.source
  THEN [fr |-> Return(fr, Created(fr)), fs |-> fs]
  ELSE [fr |-> Return(fr, Reclassify(fr, info)), fs |-> fs]

\* the skip chosen from what the probe after AlreadyExists found
Reprobed(fr, fs, info) == Step(Return(fr, Reclassify(fr, info)), fs)

\* await getPathInfo(target) after AlreadyExists
CsProbe(fr, fs) == Reprobed(fr, fs, getPathInfo(fs, fr.target))

\* an ensureDir outside the try block: its failure leaves the call rejected
ParentEnsuredUncaught(fr, fs, r) ==
  IF r.err = ""
  THEN [fr |-> [fr EXCEPT !.pc = "retry"], fs |-> r.fs]
  ELSE [fr |-> [fr EXCEPT !.pc = "rejected"], fs |-> fs]

ParentEnsured(fr, fs, r) ==
  IF r.err = ""
  THEN Step([fr EXCEPT !.pc = "retry"], r.fs)
  ELSE Step(Return(fr, Failed(fr, CreateFailed(r.err))), fs)

\* await ensureDir(dirname(target))
CsMkdir(fr, fs) == ParentEnsured(fr, fs, ensureDir(fs, dirname(fr.target)))

\* a retry that goes back to the parent directory when it fails
RetriedAgain(fr, fs, r) ==
  IF r.err = ""
  THEN [fr |-> Return(fr, Created(fr)), fs |-> r.fs]
  ELSE [fr |-> [fr EXCEPT !.pc = "mkdir"], fs |-> fs]

Retried(fr, fs, r) ==
  IF r.err = ""
  THEN Step(Return(fr, Created(fr)), r.fs)
  ELSE Step(Return(fr, Failed(fr, CreateFailed(r.err))), fs)

\* await Deno.symlink(source, target), the retry; every failure is caught
\* by the same handler
CsRetry(fr, fs) == Retried(fr, fs, symlink(fs, fr.source, fr.target))

\* the next step of a suspended call
CsStep(fr, fs) ==
  CASE fr.pc = "src" -> CsSource(fr, fs)
    [] fr.pc = "dryprobe" -> CsDryProbe(fr, fs)
    [] fr.pc = "try" -> CsTry(fr, fs)
    [] fr.pc = "probe" -> CsProbe(fr, fs)
    [] fr.pc = "mkdir" -> CsMkdir(fr, fs)
    [] fr.pc = "retry" -> CsRetry(fr, fs)

(***************************************************************************)
(* Exclusions.  A glob is the sequence of its segments; "*" stands for one *)
(* segment and "**" for any number of them, none included.                 *)
(***************************************************************************)
DEFAULT_EXCLUDE_PATTERNS ==
  << <<"**", "node_modules", "**">>, <<"**", ".git", "**">>,
     <<"**", "dist", "**">>, <<"**", "build", "**">>,
     <<"**", ".next", "**">>, <<"**", ".turbo", "**">>,
     <<"**", ".vercel", "**">>, <<"**", ".conductor", "**">> >>

\* symlinks.exclude of the configuration, absent or present
NoExclude == [present |-> FALSE, patterns |-> <<>>, replaceDefaults |-> FALSE]
Exclude(patterns, replaceDefaults) ==
  [present |-> TRUE, patterns |-> patterns, replaceDefaults |-> replaceDefaults]

\* a replacement that keeps the user-level excludes
getExclusionsKeepingUser(userExcludes, exclude) ==
  IF ~exclude.present THEN DEFAULT_EXCLUDE_PATTERNS \o userExcludes
  ELSE IF exclude.replaceDefaults THEN userExcludes \o exclude.patterns
  ELSE DEFAULT_EXCLUDE_PATTERNS \o userExcludes \o exclude.patterns

getEffectiveExclusions(userExcludes, exclude) ==
  IF ~exclude.present THEN DEFAULT_EXCLUDE_PATTERNS \o userExcludes
  ELSE IF exclude.replaceDefaults THEN exclude.patterns
  ELSE DEFAULT_EXCLUDE_PATTERNS \o userExcludes \o exclude.patterns

\* the regular expression globToRegExp compiles, applied to a path
RECURSIVE GlobMatch(_, _)
GlobMatch(pat, path) ==
  IF pat = <<>> THEN path = <<>>
  ELSE IF Head(pat) = "**"
       THEN GlobMatch(Tail(pat), path)
              \/ (path # <<>> /\ GlobMatch(pat, Tail(path)))
       ELSE /\ path # <<>>
            /\ Head(pat) = "*" \/ Head(pat) = Head(path)
            /\ GlobMatch(Tail(pat), Tail(path))

\* a matcher that matches nothing
shouldExcludeNothing(relativePath, compiledPatterns) == FALSE

shouldExclude(relativePath, compiledPatterns) ==
  \E i \in 1..Len(compiledPatterns) : GlobMatch(compiledPatterns[i], relativePath)

(***************************************************************************)
(* ConflictResolver.                                                       *)
(***************************************************************************)
\* the length of the path as a string, "/" before every segment
RECURSIVE PathLength(_)
PathLength(p) == IF p = <<>> THEN 0 ELSE 1 + Len(Head(p)) + PathLength(Tail(p))

\* Array.prototype.sort is stable: an element goes behind its equals
RECURSIVE InsertByLength(_, _)
InsertByLength(sorted, p) ==
  IF sorted = <<>> THEN <<p>>
  ELSE IF PathLength(p) < PathLength(Head(sorted))
       THEN <<p>> \o sorted
       ELSE <<Head(sorted)>> \o InsertByLength(Tail(sorted), p)

\* no sort: the paths in the order of the pool
SortNone(paths) == paths

RECURSIVE SortByLength(_)
SortByLength(paths) ==
  IF paths = <<>> THEN <<>>
  ELSE InsertByLength(SortByLength(SubSeq(paths, 1, Len(paths) - 1)),
                      paths[Len(paths)])

\* path.startsWith(parent + "/")
StartsWithDir(path, parent) == Len(parent) < Len(path) /\ IsPrefix(parent, path)

\* a test for the directory that holds the path, not for every ancestor
HasDirectParent(path, parentPaths) ==
  \E i \in 1..Len(parentPaths) : parentPaths[i] = dirname(path)

\* some path kept so far is a parent of this one
HasParent(path, parentPaths) ==
  \E i \in 1..Len(parentPaths) : StartsWithDir(path, parentPaths[i])

RECURSIVE KeepWithoutParent(_, _)
KeepWithoutParent(sorted, result) ==
  IF sorted = <<>> THEN result
  ELSE KeepWithoutParent(Tail(sorted),
                         IF HasParent(Head(sorted), result) THEN result
                         ELSE Append(result, Head(sorted)))

filterParentChildConflicts(paths) ==
  IF Len(paths) <= 1 THEN paths
  ELSE KeepWithoutParent(SortByLength(paths), <<>>)

(***************************************************************************)
(* PatternCollector.                                                       *)
(***************************************************************************)
\* pattern.includes("**")
IsRecursive(pattern) == \E i \in 1..Len(pattern) : pattern[i] = "**"

\* the walk of expandGlob does not enter what a skip pattern matches
WalkSkips(rel, exclude) ==
  \E n \in 1..Len(rel) : shouldExclude(SubSeq(rel, 1, n), exclude)

\* expandGlob(pattern, {root, includeDirs, followSymlinks: false, exclude}):
\* the existing paths under the root that match, sorted
expandGlob(fs, pattern, applyExclude, exclude) ==
  LET Hit(rel) ==
        /\ lstat(fs, join(rootPath, rel)).err = ""
        /\ GlobMatch(pattern, rel)
        /\ ~(applyExclude /\ WalkSkips(rel, exclude))
      Rooted(rels) == [i \in 1..Len(rels) |-> join(rootPath, rels[i])]
  IN Rooted(SelectSeq(RelOrder, Hit))

\* an expansion that applies the exclusions to every pattern
collectExcludingAlways(fs, pattern, exclude) ==
  expandGlob(fs, pattern, TRUE, exclude)

collectNormalSymlinkMatches(fs, pattern, exclude) ==
  expandGlob(fs, pattern, IsRecursive(pattern), exclude)

RECURSIVE Flat(_)
Flat(arrays) == IF arrays = <<>> THEN <<>> ELSE Head(arrays) \o Flat(Tail(arrays))

(***************************************************************************)
(* TreeSynchronizer.  One unit per relative path below the tree rule: the  *)
(* processTreeSymlink call of the rule, or the processEntry call of a      *)
(* listed entry together with the processTreeSymlink call it ends in.      *)
(*   idle      not called                                                  *)
(*   excluded  processEntry is returning [] for an excluded entry          *)
(*   probe     await getPathInfo(childTarget)                              *)
(*   readdir   await Deno.readDir(sourcePath)                              *)
(*   cs        inside createSymlink (fr is the call)                       *)
(*   join      await parallelLimit(entries, ...): the children run         *)
(*   done      returned; out holds the results                             *)
(***************************************************************************)
PARALLEL_LIMIT == 100

Min(a, b) == IF a < b THEN a ELSE b

NoFrame ==
  [source |-> <<>>, target |-> <<>>, dryRun |-> FALSE,
   targetInfo |-> NoTargetInfo, pc |-> "none", result |-> NoOutcome]

Unit(pc, fr, entries, out) ==
  [pc |-> pc, fr |-> fr, entries |-> entries, out |-> out]
IdleUnit == Unit("idle", NoFrame, <<>>, <<>>)

\* a tree rule may name a path the source does not have
MissingRel == <<"m">>
UnitPaths == RelPaths \cup {MissingRel}
NoUnits == [p \in UnitPaths |-> IdleUnit]

\* the names a directory can hold, in listing order
NameOrder == <<"d", "dist", "f", "g", "h">>

\* a listing that gives a link to a directory as a directory
ListingFollowingLinks(fs, at) ==
  IF at.err # "" THEN [err |-> at.err, entries |-> <<>>]
  ELSE IF Entry(fs, at.path).k # "dir"
       THEN [err |-> "NotADirectory", entries |-> <<>>]
       ELSE LET Has(n) == Entry(fs, join(at.path, <<n>>)).k # "none"
                IsDirEntry(n) == IsDirectory(fs, join(at.path, <<n>>))
                Named(names) ==
                  [i \in 1..Len(names) |->
                     [name |-> names[i], isDirectory |-> IsDirEntry(names[i])]]
            IN [err |-> "", entries |-> Named(SelectSeq(NameOrder, Has))]

Listing(fs, at) ==
  IF at.err # "" THEN [err |-> at.err, entries |-> <<>>]
  ELSE IF Entry(fs, at.path).k # "dir"
       THEN [err |-> "NotADirectory", entries |-> <<>>]
       ELSE LET Has(n) == Entry(fs, join(at.path, <<n>>)).k # "none"
                IsDirEntry(n) == Entry(fs, join(at.path, <<n>>)).k = "dir"
                Named(names) ==
                  [i \in 1..Len(names) |->
                     [name |-> names[i], isDirectory |-> IsDirEntry(names[i])]]
            IN [err |-> "", entries |-> Named(SelectSeq(NameOrder, Has))]

\* Deno.readDir(p): the entries of the directory p resolves to, each with
\* the type of the entry itself (a link is not a directory)
readDir(fs, p) == Listing(fs, Resolve(fs, p, MaxLinkDepth))

\* a call whose failure is dropped from the results
AfterCallDropsError(fr) ==
  IF fr.pc = "done"
  THEN IF fr.result.action = "error"
       THEN [pc |-> "done", fr |-> NoFrame, entries |-> <<>>, out |-> <<>>]
       ELSE [pc |-> "done", fr |-> NoFrame, entries |-> <<>>, out |-> <<fr.result>>]
  ELSE [pc |-> "cs", fr |-> fr, entries |-> <<>>, out |-> <<>>]

\* the unit of a call, once it has reached a result or its next await
AfterCall(fr) ==
  IF fr.pc = "done" THEN Unit("done", NoFrame, <<>>, <<fr.result>>)
  ELSE Unit("cs", fr, <<>>, <<>>)

\* processEntry that links every entry, a directory as a file
processEntryLinkingAll(relativePath, entry, dryRun, compiledExclude) ==
  LET childRelative == join(relativePath, <<entry.name>>)
      childSource == join(rootPath, childRelative)
      childTarget == join(worktreePath, childRelative)
  IN IF shouldExclude(childRelative, compiledExclude)
     THEN Unit("excluded", NoFrame, <<>>, <<>>)
     ELSE AfterCall(createSymlink(childSource, childTarget, dryRun, TRUE,
                                  NoTargetInfo))

\* processEntry(entry) up to its first await
processEntry(relativePath, entry, dryRun, compiledExclude) ==
  LET childRelative == join(relativePath, <<entry.name>>)
      childSource == join(rootPath, childRelative)
      childTarget == join(worktreePath, childRelative)
  IN IF shouldExclude(childRelative, compiledExclude)
     THEN Unit("excluded", NoFrame, <<>>, <<>>)
     ELSE IF ~entry.isDirectory
          THEN AfterCall(createSymlink(childSource, childTarget, dryRun, TRUE,
                                       NoTargetInfo))
          ELSE Unit("probe", NoFrame, <<>>, <<>>)

\* a unit has returned: a join returns with the last of its children
RECURSIVE UnitDone(_, _)
UnitDone(us, p) ==
  \/ us[p].pc = "done"
  \/ /\ us[p].pc = "join"
     /\ \A i \in 1..Len(us[p].entries) : UnitDone(us, join(p, <<us[p].entries[i]>>))

\* what a returned unit returns: resultArrays.flat() for a join
RECURSIVE UnitOut(_, _)
UnitOut(us, p) ==
  IF us[p].pc = "join"
  THEN Flat([i \in 1..Len(us[p].entries) |->
               UnitOut(us, join(p, <<us[p].entries[i]>>))])
  ELSE us[p].out

(***************************************************************************)
(* The state: a configuration and a file system, and processSymlinks run   *)
(* on them twice, the first time in dry-run or for real, the second time   *)
(* for real on what the first run left.                                    *)
(***************************************************************************)
VARIABLES
  fs,        \* the file system
  fs0,       \* the file system before the first run
  cfg,       \* config.symlinks and userConfig.excludes
  dryFirst,  \* options.dryRun of the first run
  run,       \* 1 or 2
  phase,     \* tree, patterns (about to expand the globs), link, done
  ruleIdx,   \* the tree rule being processed
  units,     \* the calls of the tree rule being processed
  pool,      \* the createSymlink calls of the pattern rules
  results,   \* results of processSymlinks, this run
  results1,  \* what the first run returned
  call,      \* one createSymlink call made in both modes from one state
  pl,        \* one parallelLimit call
  app,       \* one call of a function without effects: input and output
  levels,    \* one processTreeSymlink call on a directory of directories
  scripts    \* one runScripts call

vars ==
  <<fs, fs0, cfg, dryFirst, run, phase, ruleIdx, units, pool, results, results1,
    call, pl, app, levels, scripts>>

\* options.dryRun of the run in progress
DryRun == run = 1 /\ dryFirst

SeqsUpTo(S, n) == UNION {[1..k -> S] : k \in 0..n}

TreePaths == {<<"d">>, <<"d", "dist">>, <<"d", "f">>, MissingRel}
Patterns == {<<"d", "f">>, <<"d", "*">>, <<"**", "h">>}
ExcludeOptions == {NoExclude, Exclude(<<>>, TRUE)}

Configs ==
  {c \in [tree : SeqsUpTo(TreePaths, MaxRules),
          normal : SeqsUpTo(Patterns, MaxRules),
          exclude : ExcludeOptions,
          userExcludes : {<<>>}] :
     Len(c.tree) + Len(c.normal) <= MaxRules}

\* what a target path holds before the first run: nothing, a real entry,
\* a link to its source, or a link to its place elsewhere
Holds(kind, rel) ==
  CASE kind = "file" -> File
    [] kind = "dir" -> Dir
    [] kind = "linkS" -> Link(join(rootPath, rel))
    [] kind = "linkX" -> Link(ElsewhereOf(rel))
    [] OTHER -> Absent

SourceTree(p) ==
  IF p \in {rootPath, join(rootPath, <<"d">>), join(rootPath, <<"d", "dist">>)}
  THEN Dir
  ELSE File

InitialFs(d, f, dist, g, h, x) ==
  [p \in Paths |->
     CASE IsPrefix(rootPath, p) -> SourceTree(p)
       [] p = worktreePath -> Dir
       [] p = join(worktreePath, <<"d">>) -> Holds(d, <<"d">>)
       [] p = join(worktreePath, <<"d", "f">>) -> Holds(f, <<"d", "f">>)
       [] p = join(worktreePath, <<"d", "dist">>) -> Holds(dist, <<"d", "dist">>)
       [] p = join(worktreePath, <<"d", "dist", "g">>) -> Holds(g, <<"d", "dist", "g">>)
       [] p = join(worktreePath, <<"d", "dist", "h">>) -> Holds(h, <<"d", "dist", "h">>)
       [] p \in {elsewherePath, join(elsewherePath, <<"dist">>)} ->
            IF x THEN Dir ELSE Absent
       [] OTHER -> Absent]

InitialFileSystems ==
  {InitialFs(d, f, dist, g, h, x) :
     d \in {"none", "file", "dir", "linkS", "linkX"},
     f \in {"none", "file", "linkS", "linkX"},
     dist \in {"none", "file", "dir", "linkS", "linkX"},
     g \in {"none", "file"}, h \in {"none"}, x \in BOOLEAN}

\* an entry lies in a real directory, the directory elsewhere matters only
\* to a link that names it, and T/d/f varies most where T/d/dist is absent
WellFormed(f) ==
  /\ f[join(worktreePath, <<"d", "dist">>)].k # "none" =>
       f[join(worktreePath, <<"d", "f">>)].k # "link"
  /\ \A p \in DOMAIN f :
       (IsPrefix(worktreePath, p) /\ Len(p) > 1 /\ f[p].k # "none")
         => f[dirname(p)].k = "dir"
  /\ f[elsewherePath].k = "dir" =>
       \E p \in DOMAIN f : f[p].k = "link" /\ f[p].to = ElsewhereOf(relative(worktreePath, p))
                           /\ f[p].to \in {elsewherePath, join(elsewherePath, <<"dist">>)}

\* no createSymlink call on its own, no parallelLimit call on its own
NoCall ==
  [fs |-> <<>>, dryFs |-> <<>>, realFs |-> <<>>, dry |-> NoFrame, real |-> NoFrame]
NoPool ==
  [pc |-> "none", items |-> <<>>, limit |-> 0, index |-> 0, results |-> <<>>,
   workers |-> <<>>, value |-> <<>>]

\* no traversal counted by level, no runScripts call
NoLevels == [pc |-> "none", index |-> 0, dirs |-> <<>>]
NoScripts ==
  [pc |-> "none", config |-> <<>>, names |-> <<>>, dryRun |-> FALSE, at |-> 0,
   started |-> <<>>, results |-> <<>>]

\* no call of a function on its own
NoApp == [pc |-> "none", input |-> <<>>, output |-> <<>>]
Called(input) == [pc |-> "called", input |-> input, output |-> <<>>]
Returns(output) == [app EXCEPT !.pc = "returned", !.output = output]

\* every tree rule from the i-th on started at once
StartTreeAll(c, i) ==
  [p \in UnitPaths |->
     IF \E j \in i..Len(c.tree) : c.tree[j] = p
     THEN Unit("readdir", NoFrame, <<>>, <<>>) ELSE IdleUnit]

\* processSymlinks up to its first await
StartTree(c, i) == [NoUnits EXCEPT ![c.tree[i]] = Unit("readdir", NoFrame, <<>>, <<>>)]
StartPhase(c) == IF Len(c.tree) > 0 THEN "tree" ELSE "patterns"
StartUnits(c) == IF Len(c.tree) > 0 THEN StartTree(c, 1) ELSE NoUnits

Init ==
  /\ fs0 \in {f \in InitialFileSystems : WellFormed(f)}
  /\ fs = fs0
  /\ cfg \in Configs
  /\ dryFirst \in BOOLEAN
  /\ run = 1
  /\ phase = StartPhase(cfg)
  /\ ruleIdx = 1
  /\ units = StartUnits(cfg)
  /\ pool = <<>>
  /\ results = <<>>
  /\ results1 = <<>>
  /\ call = NoCall
  /\ pl = NoPool
  /\ app = NoApp
  /\ levels = NoLevels
  /\ scripts = NoScripts

compiledExclude == getEffectiveExclusions(cfg.userExcludes, cfg.exclude)

\* the pool of the entries, Math.min(PARALLEL_LIMIT, entries.length) of them
\* started
StartEntries(p, entries, n) ==
  LET Child(q) == {i \in 1..n : q = join(p, <<entries[i].name>>)}
  IN [q \in UnitPaths |->
        IF q = p
        THEN Unit("join", NoFrame, [i \in 1..n |-> entries[i].name], <<>>)
        ELSE IF Child(q) # {}
             THEN processEntry(p, entries[CHOOSE i \in Child(q) : TRUE],
                               DryRun, compiledExclude)
             ELSE units[q]]

Listed(p, r) ==
  CASE r.err = "NotADirectory" ->
         [units EXCEPT ![p] =
            AfterCall(createSymlink(join(rootPath, p), join(worktreePath, p),
                                    DryRun, TRUE, NoTargetInfo))]
    [] r.err # "" \/ Len(r.entries) = 0 ->
         [units EXCEPT ![p] = Unit("done", NoFrame, <<>>, <<>>)]
    [] OTHER -> StartEntries(p, r.entries, Min(PARALLEL_LIMIT, Len(r.entries)))

\* processTreeSymlink: await Deno.readDir(sourcePath), then the direct link
\* of a non-directory, nothing for a missing source, or the pool of the
\* entries
TreeReadDir(p) ==
  /\ phase = "tree"
  /\ units[p].pc = "readdir"
  /\ \E r \in {readDir(fs, join(rootPath, p))} : units' = Listed(p, r)
  /\ UNCHANGED <<fs, fs0, cfg, dryFirst, run, phase, ruleIdx, pool, results, results1,
               call, pl, app, levels, scripts>>

\* processEntry returns [] for an excluded entry
EntryExcluded(p) ==
  /\ phase = "tree"
  /\ units[p].pc = "excluded"
  /\ units' = [units EXCEPT ![p] = Unit("done", NoFrame, <<>>, <<>>)]
  /\ UNCHANGED <<fs, fs0, cfg, dryFirst, run, phase, ruleIdx, pool, results, results1,
               call, pl, app, levels, scripts>>

\* a probe that skips over every link, whatever its text
ProbedAnyLink(childSource, childTarget, targetInfo) ==
  IF targetInfo.exists /\ ~targetInfo.isSymlink
  THEN Unit("readdir", NoFrame, <<>>, <<>>)
  ELSE IF targetInfo.isSymlink
       THEN Unit("done", NoFrame, <<>>,
                 <<Outcome(childSource, childTarget, TRUE, "skipped", DirLinkExists)>>)
       ELSE Unit("readdir", NoFrame, <<>>, <<>>)

Probed(childSource, childTarget, targetInfo) ==
  IF targetInfo.exists /\ ~targetInfo.isSymlink
  THEN Unit("readdir", NoFrame, <<>>, <<>>)
  ELSE IF targetInfo.isSymlink /\ targetInfo.linkTarget = childSource
       THEN Unit("done", NoFrame, <<>>,
                 <<Outcome(childSource, childTarget, TRUE, "skipped", DirLinkExists)>>)
       ELSE Unit("readdir", NoFrame, <<>>, <<>>)

\* processEntry of a directory: await getPathInfo(childTarget), then skip
\* a link to the source directory and recurse in every other case
EntryProbe(p) ==
  /\ phase = "tree"
  /\ units[p].pc = "probe"
  /\ units' =
       [units EXCEPT ![p] =
          Probed(join(rootPath, p), join(worktreePath, p),
                 getPathInfo(fs, join(worktreePath, p)))]
  /\ UNCHANGED <<fs, fs0, cfg, dryFirst, run, phase, ruleIdx, pool, results, results1,
               call, pl, app, levels, scripts>>

TreeLinked(p, s) ==
  /\ fs' = s.fs
  /\ units' = [units EXCEPT ![p] = AfterCall(s.fr)]

\* one await of a createSymlink call of the tree rule
TreeLink(p) ==
  /\ phase = "tree"
  /\ units[p].pc = "cs"
  /\ TreeLinked(p, CsStep(units[p].fr, fs))
  /\ UNCHANGED <<fs0, cfg, dryFirst, run, phase, ruleIdx, pool, results, results1,
               call, pl, app, levels, scripts>>

\* a loop over the tree rules that ends after its first rule
TreeRuleBreak ==
  /\ phase = "tree"
  /\ UnitDone(units, cfg.tree[ruleIdx])
  /\ results' = results \o UnitOut(units, cfg.tree[ruleIdx])
  /\ ruleIdx' = ruleIdx
  /\ units' = NoUnits
  /\ phase' = "patterns"
  /\ UNCHANGED <<fs, fs0, cfg, dryFirst, run, pool, results1, call, pl, app, levels, scripts>>

\* results.push(...treeResults), then the next tree rule or the patterns
TreeRuleReturn ==
  /\ phase = "tree"
  /\ UnitDone(units, cfg.tree[ruleIdx])
  /\ results' = results \o UnitOut(units, cfg.tree[ruleIdx])
  /\ IF ruleIdx < Len(cfg.tree)
     THEN /\ ruleIdx' = ruleIdx + 1
          /\ units' = StartTree(cfg, ruleIdx + 1)
          /\ phase' = phase
     ELSE /\ ruleIdx' = ruleIdx
          /\ units' = NoUnits
          /\ phase' = "patterns"
  /\ UNCHANGED <<fs, fs0, cfg, dryFirst, run, pool, results1,
               call, pl, app, levels, scripts>>

\* parallelLimit(filteredMatches, PARALLEL_LIMIT, ...) up to its first await
StartLinks(filteredMatches, n) ==
  [i \in 1..n |->
     createSymlink(filteredMatches[i],
                   join(worktreePath, relative(rootPath, filteredMatches[i])),
                   DryRun, FALSE, NoTargetInfo)]

StartPool(filteredMatches) ==
  StartLinks(filteredMatches, Min(PARALLEL_LIMIT, Len(filteredMatches)))

matchArrays ==
  [i \in 1..Len(cfg.normal) |->
     collectNormalSymlinkMatches(fs, cfg.normal[i], compiledExclude)]

\* the patterns expanded, their matches pooled and filtered, and the pool
\* of createSymlink calls started
CollectMatches ==
  /\ phase = "patterns"
  /\ pool' = StartPool(filterParentChildConflicts(Flat(matchArrays)))
  /\ phase' = "link"
  /\ UNCHANGED <<fs, fs0, cfg, dryFirst, run, ruleIdx, units, results, results1,
               call, pl, app, levels, scripts>>

PatternLinked(i, s) ==
  /\ fs' = s.fs
  /\ pool' = [pool EXCEPT ![i] = s.fr]

\* one await of a createSymlink call of the pattern rules
PatternLink(i) ==
  /\ phase = "link"
  /\ pool[i].pc # "done"
  /\ PatternLinked(i, CsStep(pool[i], fs))
  /\ UNCHANGED <<fs0, cfg, dryFirst, run, phase, ruleIdx, units, results, results1,
               call, pl, app, levels, scripts>>

\* results.push(...symlinkResults); return results
PatternsReturn ==
  /\ phase = "link"
  /\ \A i \in 1..Len(pool) : pool[i].pc = "done"
  /\ results' = results \o [i \in 1..Len(pool) |-> pool[i].result]
  /\ pool' = <<>>
  /\ phase' = "done"
  /\ UNCHANGED <<fs, fs0, cfg, dryFirst, run, ruleIdx, units, results1,
               call, pl, app, levels, scripts>>

\* the second run, for real, on what the first left
SecondRun ==
  /\ phase = "done"
  /\ run = 1
  /\ results1' = results
  /\ results' = <<>>
  /\ run' = 2
  /\ phase' = StartPhase(cfg)
  /\ ruleIdx' = 1
  /\ units' = StartUnits(cfg)
  /\ UNCHANGED <<fs, fs0, cfg, dryFirst, pool,
               call, pl, app, levels, scripts>>

Next ==
  \/ \E p \in UnitPaths : TreeReadDir(p)
  \/ \E p \in UnitPaths : EntryExcluded(p)
  \/ \E p \in UnitPaths : EntryProbe(p)
  \/ \E p \in UnitPaths : TreeLink(p)
  \/ TreeRuleReturn
  \/ CollectMatches
  \/ \E i \in 1..Len(pool) : PatternLink(i)
  \/ PatternsReturn
  \/ SecondRun

Spec == Init /\ [][Next]_vars


(***************************************************************************)
(* One createSymlink call, made with dryRun = true and with dryRun = false *)
(* from the same file system.  getPathInfo is one step: no entry changes   *)
(* between its lstat, readLink and stat.                                   *)
(***************************************************************************)
runVars ==
  <<fs, fs0, cfg, dryFirst, run, phase, ruleIdx, units, pool, results, results1>>

NoConfig == [tree |-> <<>>, normal |-> <<>>, exclude |-> NoExclude, userExcludes |-> <<>>]

\* processSymlinks is not running
NoRun ==
  /\ fs = [p \in Paths |-> Absent]
  /\ fs0 = fs
  /\ cfg = NoConfig
  /\ dryFirst = FALSE
  /\ run = 0
  /\ phase = "idle"
  /\ ruleIdx = 0
  /\ units = NoUnits
  /\ pool = <<>>
  /\ results = <<>>
  /\ results1 = <<>>

\* the file system without the source at rel
WithoutSource(f, rel) ==
  [p \in DOMAIN f |-> IF IsPrefix(join(rootPath, rel), p) THEN Absent ELSE f[p]]

CallPaths == {<<"d">>, <<"d", "f">>}

CallFileSystems ==
  {f \in InitialFileSystems : WellFormed(f)}
    \cup {WithoutSource(f, rel) : f \in {g \in InitialFileSystems : WellFormed(g)},
                                  rel \in CallPaths}

\* targetInfo of the caller: none, or what getPathInfo(target) returns
TargetInfos(f, target) == {NoTargetInfo, GivenTargetInfo(getPathInfo(f, target))}

\* sourceExists is true only where the caller has seen the source
BothCalls(f, source, target, sourceExists, targetInfo) ==
  [fs |-> f, dryFs |-> f, realFs |-> f,
   dry |-> createSymlink(source, target, TRUE, sourceExists, targetInfo),
   real |-> createSymlink(source, target, FALSE, sourceExists, targetInfo)]

InitCall ==
  /\ NoRun
  /\ pl = NoPool
  /\ app = NoApp
  /\ levels = NoLevels
  /\ scripts = NoScripts
  /\ \E f \in CallFileSystems, rel \in CallPaths, sourceExists \in BOOLEAN :
       /\ sourceExists => lstat(f, join(rootPath, rel)).err = ""
       /\ \E targetInfo \in TargetInfos(f, join(worktreePath, rel)) :
            call = BothCalls(f, join(rootPath, rel), join(worktreePath, rel),
                             sourceExists, targetInfo)

DryStepped(s) == call' = [call EXCEPT !.dry = s.fr, !.dryFs = s.fs]
RealStepped(s) == call' = [call EXCEPT !.real = s.fr, !.realFs = s.fs]

\* one await of the dry-run call
CallDry ==
  /\ call.dry.pc \notin {"none", "done"}
  /\ DryStepped(CsStep(call.dry, call.dryFs))
  /\ UNCHANGED <<runVars, pl, app, levels, scripts>>

\* one await of the real call
CallReal ==
  /\ call.real.pc \notin {"none", "done"}
  /\ RealStepped(CsStep(call.real, call.realFs))
  /\ UNCHANGED <<runVars, pl, app, levels, scripts>>

NextCall == CallDry \/ CallReal

SpecCall == InitCall /\ [][NextCall]_vars

(***************************************************************************)
(* parallelLimit(items, limit, fn).  A worker runs without interruption    *)
(* between two awaits; the calls of fn resolve in any order.  results is a *)
(* JavaScript array: storing past its end leaves holes.                    *)
(***************************************************************************)
MaxItems == 4
MaxLimit == 3

Items == {"a", "b"}
Hole == <<"hole">>

\* what fn resolves to for an item
Fn(item) == <<"fn", item>>

\* results.push(result): the results in completion order
StorePush(array, currentIndex, result) == Append(array, result)

\* results[currentIndex] = result
Store(array, currentIndex, result) ==
  IF currentIndex < Len(array)
  THEN [array EXCEPT ![currentIndex + 1] = result]
  ELSE array \o [k \in 1..(currentIndex - Len(array)) |-> Hole] \o <<result>>

Awaiting(currentIndex) == [pc |-> "await", currentIndex |-> currentIndex]
Returned == [pc |-> "done", currentIndex |-> 0]

InitPL ==
  /\ NoRun
  /\ call = NoCall
  /\ app = NoApp
  /\ levels = NoLevels
  /\ scripts = NoScripts
  /\ \E items \in SeqsUpTo(Items, MaxItems), limit \in 1..MaxLimit :
       pl = [NoPool EXCEPT !.pc = "called", !.items = items, !.limit = limit]

\* a pool of one worker, whatever the limit
StartOneWorker(n) ==
  [pl EXCEPT !.pc = "all", !.index = Min(1, n),
             !.workers = [k \in 1..Min(1, n) |-> Awaiting(k - 1)]]

\* the workers created, each run to its first await: worker k has claimed
\* index k - 1
StartWorkers(n) ==
  [pl EXCEPT !.pc = "all", !.index = n,
             !.workers = [k \in 1..n |-> Awaiting(k - 1)]]

\* a pool that starts one worker for each item, whatever the limit
parallelLimitUnbounded ==
  /\ pl.pc = "called"
  /\ pl' = StartWorkers(Len(pl.items))
  /\ UNCHANGED <<runVars, call, app, levels, scripts>>

parallelLimit ==
  /\ pl.pc = "called"
  /\ pl' = StartWorkers(Min(pl.limit, Len(pl.items)))
  /\ UNCHANGED <<runVars, call, app, levels, scripts>>

\* a worker that claims again the index claimed last and passes over the rest
ResumedSameIndex(w, stored) ==
  IF pl.index < Len(pl.items)
  THEN [pl EXCEPT !.results = stored, !.index = Len(pl.items),
                  !.workers[w] = Awaiting(pl.index - 1)]
  ELSE [pl EXCEPT !.results = stored, !.workers[w] = Returned]

\* fn has resolved for worker w: the result is stored, and the loop claims
\* the next index or ends
Resumed(w, stored) ==
  IF pl.index < Len(pl.items)
  THEN [pl EXCEPT !.results = stored, !.index = pl.index + 1,
                  !.workers[w] = Awaiting(pl.index)]
  ELSE [pl EXCEPT !.results = stored, !.workers[w] = Returned]

worker(w) ==
  /\ pl.pc = "all"
  /\ pl.workers[w].pc = "await"
  /\ pl' = Resumed(w, Store(pl.results, pl.workers[w].currentIndex,
                            Fn(pl.items[pl.workers[w].currentIndex + 1])))
  /\ UNCHANGED <<runVars, call, app, levels, scripts>>

\* await Promise.all(workers); return results
PoolReturn ==
  /\ pl.pc = "all"
  /\ \A w \in 1..Len(pl.workers) : pl.workers[w].pc = "done"
  /\ pl' = [pl EXCEPT !.pc = "returned", !.value = pl.results]
  /\ UNCHANGED <<runVars, call, app, levels, scripts>>

NextPL ==
  \/ parallelLimit
  \/ \E w \in 1..Len(pl.workers) : worker(w)
  \/ PoolReturn

SpecPL == InitPL /\ [][NextPL]_vars


(***************************************************************************)
(* Properties of a run (Spec).                                             *)
(***************************************************************************)
Indices(seq) == 1..Len(seq)
IsLink(l) == l.err = "" /\ l.entry.k = "link"
RunReturned(n, dry) == run = n /\ phase = "done" /\ dryFirst = dry

\* C1: a path that holds a real file or directory before the first run
\* holds an entry of the same kind in every state of every run, dry or
\* real, under every interleaving: it is never removed and never replaced
\* by a link.
C1_NonDestructive ==
  \A p \in Paths : fs0[p].k \in {"file", "dir"} => fs[p].k = fs0[p].k

C1_Witness ==
  /\ RunReturned(1, FALSE)
  /\ \E i \in Indices(results) :
       /\ results[i].reason = LocalOverride
       /\ fs0[results[i].target].k = "file"
  /\ \E i \in Indices(results) : results[i].action = "created"

C3_PatternOverwritesLink ==
  (RunReturned(1, FALSE) /\ cfg.tree = <<>>)
    => \A i \in Indices(results) :
         IsLink(lstat(fs0, results[i].target))
           => lstat(fs, results[i].target).entry = Link(results[i].source)

\* C4: in every outcome returned, dry-run or real, skipped goes with
\* success, created goes with success, and error goes with no success and
\* a reason that is not empty.
C4_OutcomeShape ==
  \A i \in Indices(results) :
    /\ results[i].action \in {"created", "skipped", "error"}
    /\ results[i].action = "skipped" => results[i].success
    /\ results[i].action = "created" => results[i].success
    /\ results[i].action = "error" =>
         ~results[i].success /\ results[i].reason.msg # ""

C4_Witness ==
  /\ phase = "done"
  /\ \E i \in Indices(results) : results[i].action = "error"
  /\ \E i \in Indices(results) : results[i].action = "skipped"

\* C5: when a real run is followed by a second real run, the second run
\* returns no created outcome, and every target the first run reported
\* created has in the second run an outcome skipped because the link
\* exists and points to the correct source.
C5_Idempotent ==
  RunReturned(2, FALSE) =>
    /\ \A i \in Indices(results) : results[i].action # "created"
    /\ \A j \in Indices(results1) :
         results1[j].action = "created" =>
           \E i \in Indices(results) :
             /\ results[i].target = results1[j].target
             /\ results[i].action = "skipped"
             /\ results[i].reason = AlreadyCorrect

C5_Witness ==
  /\ RunReturned(2, FALSE)
  /\ \E j \in Indices(results1) : results1[j].action = "created"

\* C6: a real run that follows a dry-run reports created for every target
\* for which the dry-run reported created.
C6_RealCreatesWhatDryRunDid ==
  RunReturned(2, TRUE) =>
    \A j \in Indices(results1) :
      results1[j].action = "created" =>
        \E i \in Indices(results) :
          /\ results[i].target = results1[j].target
          /\ results[i].action = "created"

\* C8: a dry-run and the real run on the same file system and rules return
\* lists of one length with one action for every (source, target).
SameDecision(a, b) ==
  a.source = b.source /\ a.target = b.target /\ a.action = b.action

C8_SameDecisions ==
  RunReturned(2, TRUE) =>
    /\ Len(results1) = Len(results)
    /\ \A j \in Indices(results1) :
         \E i \in Indices(results) : SameDecision(results1[j], results[i])
    /\ \A i \in Indices(results) :
         \E j \in Indices(results1) : SameDecision(results1[j], results[i])

\* C10: no outcome is an error whose cause is that the target exists.
C10_ExistsNeverError ==
  \A i \in Indices(results) :
    ~(results[i].action = "error"
        /\ results[i].reason = CreateFailed("AlreadyExists"))

(***************************************************************************)
(* Properties of one call (SpecCall) and of the pool (SpecPL).             *)
(***************************************************************************)
BothReturned == call.dry.pc = "done" /\ call.real.pc = "done"

\* the states createSymlink classifies without creating: the source is
\* missing, or the target is a link or a real entry
Classified(f, source, target) ==
  ~getPathInfo(f, source).exists \/ getPathInfo(f, target).exists

\* C7: from a state where the source is missing or the target is a link to
\* the source, a link to something else or a real entry, the call returns
\* the same action and the same reason in dry-run as for real.
C7_SameClassification ==
  (BothReturned /\ Classified(call.fs, call.dry.source, call.dry.target))
    => /\ call.dry.result.action = call.real.result.action
       /\ call.dry.result.reason = call.real.result.reason

C7_Witness ==
  /\ BothReturned
  /\ IsLink(lstat(call.fs, call.dry.target))
  /\ call.dry.result.reason = OtherLink(lstat(call.fs, call.dry.target).entry.to)
  /\ call.real.result.action = "skipped"
  /\ ~call.dry.targetInfo.given

\* C9: the list parallelLimit returns has the length of items and holds at
\* every index the result of fn for the item at that index, whatever the
\* limit and the order in which the calls of fn resolve.
C9_OrderPreserved ==
  pl.pc = "returned" =>
    /\ Len(pl.value) = Len(pl.items)
    /\ \A i \in Indices(pl.items) : pl.value[i] = Fn(pl.items[i])

C9_Witness ==
  /\ pl.pc = "returned"
  /\ pl.limit > 1
  /\ pl.limit < Len(pl.items)
  /\ \E i, j \in Indices(pl.items) : pl.items[i] # pl.items[j]


(***************************************************************************)
(* Sequencing of the rules.                                                *)
(***************************************************************************)
PoolResults == [i \in Indices(pool) |-> pool[i].result]

\* C11: while a tree rule is running no pattern has been expanded and no
\* pattern link is in progress; the patterns begin only when the last tree
\* rule has returned with all its calls finished; within a run no tree rule
\* runs after that; and the returned list grows by the outcomes of a tree
\* rule while the tree rules run and by the outcomes of the patterns
\* afterwards, so every tree outcome precedes every pattern outcome.
C11_TreeBeforePattern ==
  [][/\ phase = "tree" => pool = <<>> /\ pool' = <<>>
     /\ (phase = "tree" /\ phase' # "tree") =>
          /\ phase' = "patterns"
          /\ ruleIdx = Len(cfg.tree)
          /\ UnitDone(units, cfg.tree[ruleIdx])
          /\ units' = NoUnits
     /\ (phase \in {"patterns", "link"}) => phase' # "tree" /\ units' = NoUnits
     /\ (results' # results /\ run' = run) =>
          IF phase = "tree"
          THEN results' = results \o UnitOut(units, cfg.tree[ruleIdx])
          ELSE phase = "link" /\ results' = results \o PoolResults]_vars

C11_Witness ==
  /\ phase = "link"
  /\ Len(cfg.tree) = 1
  /\ \E i \in Indices(results) : results[i].action = "created"
  /\ \E i \in Indices(pool) : pool[i].pc = "done" /\ pool[i].result.action = "skipped"


(***************************************************************************)
(* filterParentChildConflicts on its own, for pools of matches of one or   *)
(* several patterns.  "a" and "ab" are two names with a common prefix.     *)
(***************************************************************************)
MaxPool == 4

PoolPaths ==
  {<<"a">>, <<"ab">>, <<"a", "b">>, <<"a", "b", "c">>, <<"a", "c">>, <<"x">>}

InitFilter ==
  /\ NoRun
  /\ call = NoCall
  /\ pl = NoPool
  /\ levels = NoLevels
  /\ scripts = NoScripts
  /\ \E paths \in SeqsUpTo(PoolPaths, MaxPool) : app = Called(paths)

FilterReturn ==
  /\ app.pc = "called"
  /\ app' = Returns(filterParentChildConflicts(app.input))
  /\ UNCHANGED <<runVars, call, pl, levels, scripts>>

NextFilter == FilterReturn

SpecFilter == InitFilter /\ [][NextFilter]_vars

Elements(seq) == {seq[i] : i \in Indices(seq)}
Count(seq, x) == Cardinality({i \in Indices(seq) : seq[i] = x})

\* p is a proper ancestor of q by path segments
ProperAncestor(p, q) == \E n \in 1..(Len(q) - 1) : SubSeq(q, 1, n) = p

HasAncestorIn(q, paths) == \E i \in Indices(paths) : ProperAncestor(paths[i], q)

\* C12: the function returns exactly the paths of the pool that have no
\* other path of the pool as a proper ancestor by segments, each as often
\* as the pool holds it: "ab" is kept beside "a", "a/b/c" is dropped beside
\* "a" whether or not "a/b" is in the pool, and ["a", "a/b", "a/b/c", "x"]
\* gives exactly ["a", "x"].
C12_KeepsRoots ==
  app.pc = "returned" =>
    /\ \A q \in PoolPaths :
         Count(app.output, q) =
           IF HasAncestorIn(q, app.input) THEN 0 ELSE Count(app.input, q)
    /\ app.input = << <<"a">>, <<"a", "b">>, <<"a", "b", "c">>, <<"x">> >>
         => app.output = << <<"a">>, <<"x">> >>

C12_Witness ==
  /\ app.pc = "returned"
  /\ {<<"a">>, <<"ab">>, <<"a", "b", "c">>} \subseteq Elements(app.input)
  /\ <<"a", "b">> \notin Elements(app.input)
  /\ <<"ab">> \in Elements(app.output)
  /\ <<"a", "b", "c">> \notin Elements(app.output)

Permuted(seq, f) == [i \in Indices(seq) |-> seq[f[i]]]

\* C13: every permutation of a pool gives the same set of kept paths.
C13_OrderIndependent ==
  app.pc = "returned" =>
    \A f \in Permutations(Indices(app.input)) :
      Elements(filterParentChildConflicts(Permuted(app.input, f)))
        = Elements(app.output)

C13_Witness ==
  /\ app.pc = "returned"
  /\ Len(app.input) = 3
  /\ app.input[1] = <<"a", "b", "c">>
  /\ app.input[2] = <<"x">>
  /\ app.input[3] = <<"a">>
  /\ app.output = << <<"x">>, <<"a">> >>


(***************************************************************************)
(* The candidates of a run, read off the source tree and the rules: the    *)
(* files a tree rule reaches, the source directories whose target is a     *)
(* link to them, and the filtered matches of the patterns.                 *)
(***************************************************************************)
RECURSIVE TreeSources(_, _, _)
RECURSIVE EntrySources(_, _, _)

TreeSources(f, rel, excl) ==
  CASE Entry(f, join(rootPath, rel)).k = "none" -> <<>>
    [] Entry(f, join(rootPath, rel)).k # "dir" -> <<join(rootPath, rel)>>
    [] OTHER ->
         Flat([i \in Indices(NameOrder) |->
                 EntrySources(f, join(rel, <<NameOrder[i]>>), excl)])

EntrySources(f, child, excl) ==
  CASE Entry(f, join(rootPath, child)).k = "none" -> <<>>
    [] shouldExclude(child, excl) -> <<>>
    [] Entry(f, join(rootPath, child)).k # "dir" -> <<join(rootPath, child)>>
    [] lstat(f, join(worktreePath, child)).entry = Link(join(rootPath, child)) ->
         <<join(rootPath, child)>>
    [] OTHER -> TreeSources(f, child, excl)

Candidates(f, c) ==
  Flat([i \in Indices(c.tree) |->
          TreeSources(f, c.tree[i], getEffectiveExclusions(c.userExcludes, c.exclude))])
    \o filterParentChildConflicts(
         Flat([i \in Indices(c.normal) |->
                 collectNormalSymlinkMatches(
                   f, c.normal[i],
                   getEffectiveExclusions(c.userExcludes, c.exclude))]))

Sources(outcomes) == [i \in Indices(outcomes) |-> outcomes[i].source]

\* the awaits a createSymlink call can be suspended at
Awaits == {"src", "dryprobe", "try", "probe", "mkdir", "retry"}

\* the run has returned, or one of its calls can take its next step
CanStep ==
  CASE phase = "tree" ->
         \/ UnitDone(units, cfg.tree[ruleIdx])
         \/ \E p \in UnitPaths :
              \/ units[p].pc \in {"readdir", "excluded", "probe"}
              \/ units[p].pc = "cs" /\ units[p].fr.pc \in Awaits
    [] phase = "patterns" -> TRUE
    [] phase = "link" -> \A i \in Indices(pool) : pool[i].pc \in Awaits \cup {"done"}
    [] OTHER -> phase = "done"

\* C14: a run never stops before it returns, whatever fails: as long as it
\* has not returned one of its calls can take its next step, and no call
\* ends in anything but an outcome; and the list a run returns holds one
\* outcome for each candidate of each rule, in order, the failed ones with
\* action error among them.
C14_ContinueOnError ==
  /\ CanStep
  /\ (run = 1 /\ phase = "done") => Sources(results) = Candidates(fs0, cfg)

C14_Witness ==
  /\ run = 1
  /\ phase = "done"
  /\ Len(results) >= 2
  /\ results[1].action = "error"
  /\ results[Len(results)].action = "created"


\* a relative path a rule covers: it lies in the tree of a tree rule, or a
\* pattern matches it
Covered(rel) ==
  \/ \E j \in Indices(cfg.tree) : IsPrefix(cfg.tree[j], rel)
  \/ \E j \in Indices(cfg.normal) : GlobMatch(cfg.normal[j], rel)

\* C15: where a covered target path held a real file before the run, every
\* outcome for that path or for a path beneath it is skipped.
C15_RealFileSkipped ==
  \A i \in Indices(results) :
    \A rel \in RelPaths :
      (/\ Covered(rel)
       /\ fs0[join(worktreePath, rel)].k = "file"
       /\ IsPrefix(join(worktreePath, rel), results[i].target))
      => results[i].action = "skipped"


(***************************************************************************)
(* A tree rule on a source directory of files: S/d/dist holds g and h.     *)
(***************************************************************************)
FilesOfDist == << <<"d", "dist", "g">>, <<"d", "dist", "h">> >>

TreeOfFiles ==
  /\ RunReturned(1, FALSE)
  /\ cfg.tree = << <<"d", "dist">> >>
  /\ cfg.normal = <<>>
  /\ cfg.exclude = Exclude(<<>>, TRUE)

Missing(f, p) == lstat(f, p).err # ""
CreatedFor(rel) ==
  Outcome(join(rootPath, rel), join(worktreePath, rel), TRUE, "created", NoReason)
OverrideFor(rel) ==
  Outcome(join(rootPath, rel), join(worktreePath, rel), TRUE, "skipped", LocalOverride)

\* C16: a real run of a tree rule on a source directory that holds only
\* files returns one created outcome per file when none of the target files
\* exists, each target then being a link to its source; and where one target
\* file is a real file beforehand it returns skipped (local override) for
\* that file and created for the others.
C16_TreeOfFiles ==
  TreeOfFiles =>
    /\ (\A i \in Indices(FilesOfDist) : Missing(fs0, join(worktreePath, FilesOfDist[i])))
         => /\ results = [i \in Indices(FilesOfDist) |-> CreatedFor(FilesOfDist[i])]
            /\ \A i \in Indices(FilesOfDist) :
                 lstat(fs, join(worktreePath, FilesOfDist[i])).entry
                   = Link(join(rootPath, FilesOfDist[i]))
    /\ (/\ lstat(fs0, join(worktreePath, FilesOfDist[1])).entry = File
        /\ Missing(fs0, join(worktreePath, FilesOfDist[2])))
         => results = <<OverrideFor(FilesOfDist[1]), CreatedFor(FilesOfDist[2])>>


(***************************************************************************)
(* Where the exclusions apply.                                             *)
(***************************************************************************)
\* the source paths a single pattern yields under the scoping rule
ScopedMatches(f, pattern, excl) ==
  {join(rootPath, rel) : rel \in
     {r \in RelPaths :
        /\ Entry(f, join(rootPath, r)).k # "none"
        /\ GlobMatch(pattern, r)
        /\ IsRecursive(pattern) => ~shouldExclude(r, excl)}}

\* no entry listed between the path of the tree rule and rel is excluded
ListedUnexcluded(rule, rel, excl) ==
  /\ IsPrefix(rule, rel)
  /\ \A n \in (Len(rule) + 1)..Len(rel) : ~shouldExclude(SubSeq(rel, 1, n), excl)

MaxExcludes == 2

UserPatterns == {<<"**", "tmp", "**">>, <<"*.log">>}
ProjectPatterns == {<<"**", "cache", "**">>, <<"dist">>}

ExcludeConfigs ==
  {NoExclude}
    \cup {Exclude(patterns, replaceDefaults) :
            patterns \in SeqsUpTo(ProjectPatterns, MaxExcludes),
            replaceDefaults \in BOOLEAN}

InitExclusions ==
  /\ NoRun
  /\ call = NoCall
  /\ pl = NoPool
  /\ levels = NoLevels
  /\ scripts = NoScripts
  /\ \E userExcludes \in SeqsUpTo(UserPatterns, MaxExcludes), exclude \in ExcludeConfigs :
       app = Called([userExcludes |-> userExcludes, exclude |-> exclude])

ExclusionsReturn ==
  /\ app.pc = "called"
  /\ app' = Returns(getEffectiveExclusions(app.input.userExcludes, app.input.exclude))
  /\ UNCHANGED <<runVars, call, pl, levels, scripts>>

NextExclusions == ExclusionsReturn

SpecExclusions == InitExclusions /\ [][NextExclusions]_vars

\* the part of a list from position from, n elements long
Part(seq, from, n) == SubSeq(seq, from, from + n - 1)

\* the project patterns of a configuration, none without an exclude section
ProjectOf(exclude) == IF exclude.present THEN exclude.patterns ELSE <<>>

\* C18: with replaceDefaults the function returns the project patterns and
\* nothing else; otherwise it returns the defaults, then the user-level
\* excludes, then the project patterns (none without an exclude section).
C18_EffectiveExclusions ==
  app.pc = "returned" =>
    IF app.input.exclude.present /\ app.input.exclude.replaceDefaults
    THEN app.output = app.input.exclude.patterns
    ELSE /\ Len(app.output) = Len(DEFAULT_EXCLUDE_PATTERNS)
                                + Len(app.input.userExcludes)
                                + Len(ProjectOf(app.input.exclude))
         /\ Part(app.output, 1, Len(DEFAULT_EXCLUDE_PATTERNS))
              = DEFAULT_EXCLUDE_PATTERNS
         /\ Part(app.output, Len(DEFAULT_EXCLUDE_PATTERNS) + 1,
                 Len(app.input.userExcludes))
              = app.input.userExcludes
         /\ Part(app.output,
                 Len(DEFAULT_EXCLUDE_PATTERNS) + Len(app.input.userExcludes) + 1,
                 Len(ProjectOf(app.input.exclude)))
              = ProjectOf(app.input.exclude)

C18_Witness ==
  /\ app.pc = "returned"
  /\ app.input.exclude.present
  /\ app.input.exclude.replaceDefaults
  /\ Len(app.input.userExcludes) = 2
  /\ Len(app.input.exclude.patterns) = 1
  /\ Len(app.output) = 1


(***************************************************************************)
(* The steps of one createSymlink call inside a run.                       *)
(***************************************************************************)
\* the call of a unit after a step of it: suspended again, or returned
FrameOf(before, unit) ==
  IF unit.pc = "cs" THEN unit.fr
  ELSE [before EXCEPT !.pc = "done", !.result = unit.out[1]]

\* the first attempt: success, the re-probe, the parent directory, or an
\* error at once for every other failure
FirstAttempt(b, first) ==
  CASE first = "" -> b.pc = "done" /\ b.result.action = "created"
    [] first = "AlreadyExists" -> b.pc = "probe"
    [] first = "NotFound" -> b.pc = "mkdir"
    [] OTHER -> b.pc = "done" /\ b.result.action = "error"

SecondAttempt(b, second) ==
  /\ b.pc = "done"
  /\ b.result.action = IF second = "" THEN "created" ELSE "error"

\* a step of a call from frame a to frame b, on file system f before and
\* g after it
SingleRetry(a, b, f, g) ==
  /\ a.pc = "try" => FirstAttempt(b, symlink(f, a.source, a.target).err)
  /\ a.pc = "mkdir" =>
       \/ b.pc = "retry" /\ IsDirectory(g, dirname(a.target))
       \/ /\ b.pc = "done"
          /\ b.result.action = "error"
          /\ ensureDir(f, dirname(a.target)).err # ""
          /\ g = f
  /\ a.pc = "retry" => SecondAttempt(b, symlink(f, a.source, a.target).err)
  /\ a.pc = "probe" => b.pc = "done" /\ b.result.action = "skipped"
  /\ b.pc = "retry" => a.pc = "mkdir"
  /\ b.pc = "mkdir" => a.pc = "try"
  /\ b.pc = "try" => a.pc = "src"

\* C19: a call attempts the link at most twice.  The first attempt goes on
\* to the parent directory only for a not-found failure, to the re-probe
\* for target-exists, and ends in error for every other failure; the
\* parent creation is followed by exactly one more attempt or, when it
\* fails, by error; the second attempt ends the call, in created or in
\* error, and nothing follows it.
C19_SingleRetry ==
  [][/\ \A i \in Indices(pool) :
          (phase = "link" /\ phase' = "link" /\ pool'[i] # pool[i])
            => SingleRetry(pool[i], pool'[i], fs, fs')
     /\ \A p \in UnitPaths :
          (units[p].pc = "cs" /\ units'[p] # units[p])
            => SingleRetry(units[p].fr, FrameOf(units[p].fr, units'[p]), fs, fs')]_vars

C19_Witness ==
  /\ phase = "link"
  /\ \E i, j \in Indices(pool) :
       /\ pool[i].pc = "retry"
       /\ symlink(fs, pool[i].source, pool[i].target).err = "AlreadyExists"
       /\ pool[j].pc = "done"
       /\ pool[j].result.action = "created"


\* the source of the call does not exist
SourceIsMissing == Missing(call.fs, call.dry.source)

SourceMissingOutcome(fr) ==
  Outcome(fr.source, fr.target, FALSE, "error", SourceMissing(fr.source))

\* C20: a call made without the caller's guarantee on a source that does
\* not exist returns, in dry-run and for real and for every state of the
\* target, the outcome error with success false and the reason that the
\* source does not exist, and the file system stays as it was.
C20_SourceMissing ==
  SourceIsMissing =>
    /\ call.dryFs = call.fs
    /\ call.realFs = call.fs
    /\ call.dry.pc \in {"src", "done"}
    /\ call.real.pc \in {"src", "done"}
    /\ call.dry.pc = "done" => call.dry.result = SourceMissingOutcome(call.dry)
    /\ call.real.pc = "done" => call.real.result = SourceMissingOutcome(call.real)

C20_Witness ==
  /\ SourceIsMissing
  /\ BothReturned
  /\ call.real.result.action = "error"
  /\ IsLink(lstat(call.fs, call.real.target))


(***************************************************************************)
(* C21.  processEntry of a directory entry decides on what lstat finds at  *)
(* the target: a real directory, a link whose text is the source           *)
(* directory, or anything else.                                            *)
(***************************************************************************)
TargetIsRealDir(l) == l.err = "" /\ l.entry.k = "dir"
TargetIsLinkTo(l, source) == IsLink(l) /\ l.entry.to = source
TargetAbsentOrOtherLink(l, source) ==
  l.err # "" \/ (IsLink(l) /\ l.entry.to # source)

Recursed(unit) == unit = Unit("readdir", NoFrame, <<>>, <<>>)
SkippedDirLink(unit, p) ==
  unit = Unit("done", NoFrame, <<>>,
              <<Outcome(join(rootPath, p), join(worktreePath, p), TRUE, "skipped",
                        DirLinkExists)>>)

Beneath(p) == {q \in UnitPaths : Len(p) < Len(q) /\ IsPrefix(p, q)}

DirectoryDecision(p, l) ==
  /\ TargetIsRealDir(l) => Recursed(units'[p])
  /\ TargetIsLinkTo(l, join(rootPath, p)) =>
       /\ SkippedDirLink(units'[p], p)
       /\ fs' = fs
       /\ \A q \in Beneath(p) : units'[q] = IdleUnit
  /\ TargetAbsentOrOtherLink(l, join(rootPath, p)) => Recursed(units'[p])

\* C21: the step that ends the probe of a directory entry recurses when the
\* target is a real directory, returns the one skipped outcome "Directory
\* symlink already exists" with nothing beneath it read or changed when the
\* target is a link whose text is the source directory, and recurses when
\* the target is absent or a link to something else
C21_DirectoryDecision ==
  [][\A p \in UnitPaths :
       (units[p].pc = "probe" /\ units'[p] # units[p])
         => DirectoryDecision(p, lstat(fs, join(worktreePath, p)))]_vars

\* in the second run, a directory entry skipped over its link to the source
\* directory, and nothing started beneath it
C21_Witness ==
  /\ \E p \in UnitPaths :
       /\ SkippedDirLink(units[p], p)
       /\ \A q \in Beneath(p) : units[q] = IdleUnit
       /\ IsLink(lstat(fs, join(worktreePath, p)))
  /\ run = 2


(***************************************************************************)
(* One tree rule on its own, in dry-run or for real.  The source holds the *)
(* tree of the runs above, or a file at S/d and nothing beneath it, so     *)
(* that a rule can name a directory, a file, a path that is missing from a *)
(* directory and a path beneath a file.                                    *)
(***************************************************************************)
InitTree ==
  /\ \E f \in {g \in InitialFileSystems : WellFormed(g)} :
       fs0 \in {f, [WithoutSource(f, <<"d">>) EXCEPT ![join(rootPath, <<"d">>)] = File]}
  /\ fs = fs0
  /\ cfg \in {c \in Configs : Len(c.tree) = 1 /\ Len(c.normal) = 0}
  /\ dryFirst \in BOOLEAN
  /\ run = 1
  /\ phase = "tree"
  /\ ruleIdx = 1
  /\ units = StartTree(cfg, 1)
  /\ pool = <<>>
  /\ results = <<>>
  /\ results1 = <<>>
  /\ call = NoCall
  /\ pl = NoPool
  /\ app = NoApp
  /\ levels = NoLevels
  /\ scripts = NoScripts

NextTree ==
  \/ \E p \in UnitPaths : TreeReadDir(p)
  \/ \E p \in UnitPaths : EntryExcluded(p)
  \/ \E p \in UnitPaths : EntryProbe(p)
  \/ \E p \in UnitPaths : TreeLink(p)
  \/ TreeRuleReturn

SpecTree == InitTree /\ [][NextTree]_vars

\* the tree rule has returned
TreeReturned == run = 1 /\ phase = "patterns"

SourceIsFile(f, rel) ==
  lstat(f, join(rootPath, rel)).err = "" /\ lstat(f, join(rootPath, rel)).entry.k = "file"

\* the one outcome of a direct link from S/rel to T/rel
DirectLink(rel) ==
  /\ Len(results) = 1
  /\ results[1].source = join(rootPath, rel)
  /\ results[1].target = join(worktreePath, rel)
  /\ results[1].action \in {"created", "skipped", "error"}
  /\ (results[1].action = "created" /\ ~dryFirst)
       => lstat(fs, join(worktreePath, rel)).entry = Link(join(rootPath, rel))
  /\ dryFirst => fs = fs0

\* C22: a tree rule whose path names a source file returns exactly one
\* outcome, that of the direct link from the file to the same path under the
\* worktree; a tree rule whose path does not exist in the source returns the
\* empty list and leaves the file system as it was
C22_TreeRuleOnNonDirectory ==
  TreeReturned =>
    /\ SourceIsFile(fs0, cfg.tree[1]) => DirectLink(cfg.tree[1])
    /\ Missing(fs0, join(rootPath, cfg.tree[1])) => (results = <<>> /\ fs = fs0)


(***************************************************************************)
(* C23.  What a real run of a tree rule on a source directory adds to the  *)
(* file system.                                                            *)
(***************************************************************************)
RealTreeRuleOnDirectory ==
  /\ run = 1
  /\ ~dryFirst
  /\ Entry(fs0, join(rootPath, cfg.tree[1])).k = "dir"

\* the paths whose entry is not the one the run started from
Changed == {p \in Paths : fs[p] # fs0[p]}

\* a link whose text is the path of a source entry that is not a directory
LeafLink(e) ==
  /\ e.k = "link"
  /\ IsPrefix(rootPath, e.to)
  /\ Entry(fs0, e.to).k = "file"

\* C23: in a real run of a tree rule that names a source directory, every
\* entry the rule adds is a symlink to a source entry that is not a
\* directory, or a real directory; no symlink to a source directory is made
C23_LeafLevelLinking ==
  RealTreeRuleOnDirectory =>
    \A p \in Changed : fs0[p] = Absent /\ (LeafLink(fs[p]) \/ fs[p] = Dir)

\* the rule has made the directory T/d/dist and, in it, the link to the
\* file S/d/dist/g
C23_Witness ==
  /\ RealTreeRuleOnDirectory
  /\ TreeReturned
  /\ cfg.tree[1] = <<"d">>
  /\ fs0[join(worktreePath, <<"d", "dist">>)] = Absent
  /\ fs[join(worktreePath, <<"d", "dist">>)] = Dir
  /\ fs[join(worktreePath, <<"d", "dist", "g">>)] = Link(join(rootPath, <<"d", "dist", "g">>))
  /\ fs[join(worktreePath, <<"d", "f">>)] = Link(join(rootPath, <<"d", "f">>))


(***************************************************************************)
(* The same real run made twice from the same file system: once the first  *)
(* run has returned the file system is put back as it was and the run is   *)
(* made again, its awaits resolving in any order, as in the first.         *)
(***************************************************************************)
InitReplay == Init /\ ~dryFirst

Replay ==
  /\ phase = "done"
  /\ run = 1
  /\ fs' = fs0
  /\ results1' = results
  /\ results' = <<>>
  /\ run' = 2
  /\ phase' = StartPhase(cfg)
  /\ ruleIdx' = 1
  /\ units' = StartUnits(cfg)
  /\ UNCHANGED <<fs0, cfg, dryFirst, pool, call, pl, app, levels, scripts>>

NextReplay ==
  \/ \E p \in UnitPaths : TreeReadDir(p)
  \/ \E p \in UnitPaths : EntryExcluded(p)
  \/ \E p \in UnitPaths : EntryProbe(p)
  \/ \E p \in UnitPaths : TreeLink(p)
  \/ TreeRuleReturn
  \/ CollectMatches
  \/ \E i \in 1..Len(pool) : PatternLink(i)
  \/ PatternsReturn
  \/ Replay

SpecReplay == InitReplay /\ [][NextReplay]_vars

\* C24: for a fixed initial file system and rule set, every interleaving of
\* the concurrent calls yields the same outcome list: two real runs from the
\* same file system with the same rules return the same list
C24_SameOutcomeList ==
  (run = 2 /\ phase = "done") => results = results1


(***************************************************************************)
(* C25.  The calls of fn in flight in one parallelLimit call.              *)
(***************************************************************************)
\* the workers suspended on a call of fn that has started and not completed
InFlight == {w \in Indices(pl.workers) : pl.workers[w].pc = "await"}

\* C25: during one parallelLimit(items, limit, fn) call the number of fn
\* calls that have started and not yet completed never exceeds limit and
\* never exceeds the number of items
C25_PerPoolBound ==
  /\ Cardinality(InFlight) <= pl.limit
  /\ Cardinality(InFlight) <= Len(pl.items)

\* a pool with more items than its limit, as many calls in flight as the
\* limit allows, a result stored and an item not yet claimed
C25_Witness ==
  /\ pl.pc = "all"
  /\ pl.limit >= 2
  /\ pl.limit < Len(pl.items)
  /\ Cardinality(InFlight) = pl.limit
  /\ Len(pl.results) > 0
  /\ pl.index < Len(pl.items)


(***************************************************************************)
(* processTreeSymlink on a source directory that holds directories of      *)
(* files, the worktree empty: the pool of the directory entries, and in    *)
(* each recursive call the pool of its file entries.  The calls are        *)
(* counted, not told apart: a pool is its next index and the number of its *)
(* calls in flight.                                                        *)
(***************************************************************************)
Subdirs == 2
Leaves == 51

\* processEntry of a directory entry: not started, at getPathInfo, at the
\* readDir of the recursive call, in its pool, returned
DirEntry(pc, index, inflight) == [pc |-> pc, index |-> index, inflight |-> inflight]

InitLevels ==
  /\ NoRun
  /\ call = NoCall
  /\ pl = NoPool
  /\ app = NoApp
  /\ scripts = NoScripts
  /\ \E n \in 1..Subdirs :
       levels = [pc |-> "readdir", index |-> 0,
                 dirs |-> [i \in 1..n |-> DirEntry("idle", 0, 0)]]

\* readDir of the rule's directory has resolved: the pool of its entries
\* starts Math.min(PARALLEL_LIMIT, entries.length) workers, each run to the
\* getPathInfo of its entry
LevelsReadDir ==
  /\ levels.pc = "readdir"
  /\ levels' =
       [levels EXCEPT
          !.pc = "all",
          !.index = Min(PARALLEL_LIMIT, Len(levels.dirs)),
          !.dirs = [i \in 1..Len(levels.dirs) |->
                      IF i <= Min(PARALLEL_LIMIT, Len(levels.dirs))
                      THEN DirEntry("probe", 0, 0) ELSE levels.dirs[i]]]
  /\ UNCHANGED <<runVars, call, pl, app, scripts>>

\* the target is absent: processEntry calls processTreeSymlink on the child
DirProbe(i) ==
  /\ levels.dirs[i].pc = "probe"
  /\ levels' = [levels EXCEPT !.dirs[i] = DirEntry("readdir", 0, 0)]
  /\ UNCHANGED <<runVars, call, pl, app, scripts>>

\* readDir of the child has resolved: a pool of its own for its entries,
\* Math.min(PARALLEL_LIMIT, entries.length) createSymlink calls started
DirReadDir(i) ==
  /\ levels.dirs[i].pc = "readdir"
  /\ levels' = [levels EXCEPT !.dirs[i] =
                  DirEntry("all", Min(PARALLEL_LIMIT, Leaves), Min(PARALLEL_LIMIT, Leaves))]
  /\ UNCHANGED <<runVars, call, pl, app, scripts>>

\* a createSymlink call of the child's pool returns: its worker claims the
\* next entry or ends
LeafLinked(i) ==
  /\ levels.dirs[i].pc = "all"
  /\ levels.dirs[i].inflight > 0
  /\ levels' =
       [levels EXCEPT !.dirs[i] =
          IF levels.dirs[i].index < Leaves
          THEN DirEntry("all", levels.dirs[i].index + 1, levels.dirs[i].inflight)
          ELSE DirEntry("all", levels.dirs[i].index, levels.dirs[i].inflight - 1)]
  /\ UNCHANGED <<runVars, call, pl, app, scripts>>

\* the child's pool returns, and the worker of the outer pool claims the
\* next directory entry or ends
DirReturn(i) ==
  /\ levels.dirs[i].pc = "all"
  /\ levels.dirs[i].inflight = 0
  /\ levels' =
       IF levels.index < Len(levels.dirs)
       THEN [levels EXCEPT !.dirs[i] = DirEntry("done", 0, 0),
                           !.dirs[levels.index + 1] = DirEntry("probe", 0, 0),
                           !.index = levels.index + 1]
       ELSE [levels EXCEPT !.dirs[i] = DirEntry("done", 0, 0)]
  /\ UNCHANGED <<runVars, call, pl, app, scripts>>

LevelsReturn ==
  /\ levels.pc = "all"
  /\ \A i \in Indices(levels.dirs) : levels.dirs[i].pc = "done"
  /\ levels' = [levels EXCEPT !.pc = "returned"]
  /\ UNCHANGED <<runVars, call, pl, app, scripts>>

NextLevels ==
  \/ LevelsReadDir
  \/ \E i \in Indices(levels.dirs) : DirProbe(i)
  \/ \E i \in Indices(levels.dirs) : DirReadDir(i)
  \/ \E i \in Indices(levels.dirs) : LeafLinked(i)
  \/ \E i \in Indices(levels.dirs) : DirReturn(i)
  \/ LevelsReturn

SpecLevels == InitLevels /\ [][NextLevels]_vars

\* the createSymlink calls in flight in the pools of the first n directory
\* entries
RECURSIVE PathsInFlight(_)
PathsInFlight(n) ==
  IF n = 0 THEN 0 ELSE levels.dirs[n].inflight + PathsInFlight(n - 1)

\* the directory entries whose processEntry call is in flight
ListsInFlight ==
  Cardinality({i \in Indices(levels.dirs) :
                 levels.dirs[i].pc \in {"probe", "readdir", "all"}})

\* C26: at every moment of a run the units of work in flight, paths and
\* directory entry lists counted across all levels of a tree traversal, are
\* at most PARALLEL_LIMIT
C26_RunWideBound ==
  PathsInFlight(Len(levels.dirs)) + ListsInFlight <= PARALLEL_LIMIT


(***************************************************************************)
(* parallelLimit where the call of fn for one item never resolves.  Every  *)
(* other call of fn resolves in the end, and the continuation of a         *)
(* resolved call is run: weak fairness on each worker whose call is not    *)
(* the stuck one.  stuck is the position of the item, 0 for none.          *)
(***************************************************************************)
InitStuck ==
  /\ NoRun
  /\ call = NoCall
  /\ app = NoApp
  /\ levels = NoLevels
  /\ scripts = NoScripts
  /\ \E items \in SeqsUpTo(Items, MaxItems), limit \in 1..MaxLimit :
       \E stuck \in 0..Len(items) :
         pl = [pc |-> "called", items |-> items, limit |-> limit, index |-> 0,
               results |-> <<>>, workers |-> <<>>, value |-> <<>>, stuck |-> stuck]

\* the call of worker w is the one that never resolves
IsStuck(w) == pl.workers[w].currentIndex + 1 = pl.stuck

workerResolved(w) == ~IsStuck(w) /\ worker(w)

NextStuck ==
  \/ parallelLimit
  \/ \E w \in 1..Len(pl.workers) : workerResolved(w)
  \/ PoolReturn

SpecStuck ==
  /\ InitStuck
  /\ [][NextStuck]_vars
  /\ WF_vars(parallelLimit)
  /\ \A w \in 1..MaxLimit : WF_vars(w <= Len(pl.workers) /\ workerResolved(w))

\* fn has resolved for the item at position i and its result is stored
Completed(i) == i <= Len(pl.results) /\ pl.results[i] = Fn(pl.items[i])

\* every worker has returned, but the one suspended on the stuck call
OthersReturned ==
  /\ pl.pc = "all"
  /\ \A w \in Indices(pl.workers) :
       pl.workers[w].pc = "done" \/ (pl.workers[w].pc = "await" /\ IsStuck(w))

\* C27: in a pool with limit >= 2 where the call for one item never
\* completes, every other item is eventually claimed and completed, and
\* every worker other than the one that issued the stuck call goes on until
\* it returns
C27_StuckStallsOnlyItsWorker ==
  /\ \A i \in 1..MaxItems :
       (pl.pc = "called" /\ pl.stuck > 0 /\ pl.limit >= 2
          /\ i <= Len(pl.items) /\ i # pl.stuck) ~> Completed(i)
  /\ (pl.pc = "called" /\ pl.stuck > 0 /\ pl.limit >= 2 /\ Len(pl.items) >= 2)
       ~> [](OthersReturned)

\* the first of four calls is stuck, the other three items are completed
\* and the worker that issued the stuck call is the only one suspended
C27_Witness ==
  /\ pl.stuck = 1
  /\ pl.limit = 2
  /\ Len(pl.items) = 4
  /\ \A i \in 2..4 : Completed(i)
  /\ OthersReturned
  /\ \E w \in Indices(pl.workers) : pl.workers[w].pc = "await" /\ IsStuck(w)


(***************************************************************************)
(* getPathInfo(path) called on a file system.                              *)
(***************************************************************************)
InitPathInfo ==
  /\ NoRun
  /\ call = NoCall
  /\ pl = NoPool
  /\ levels = NoLevels
  /\ scripts = NoScripts
  /\ \E f \in CallFileSystems, path \in Paths : app = Called([fs |-> f, path |-> path])

PathInfoReturn ==
  /\ app.pc = "called"
  /\ app' = Returns(getPathInfo(app.input.fs, app.input.path))
  /\ UNCHANGED <<runVars, call, pl, levels, scripts>>

NextPathInfo == PathInfoReturn

SpecPathInfo == InitPathInfo /\ [][NextPathInfo]_vars

\* the entry Deno.lstat finds at the path, and whether the path resolves to
\* a directory
EntryAt(input) == lstat(input.fs, input.path)
ResolvesToDir(input) ==
  /\ stat(input.fs, input.path).err = ""
  /\ stat(input.fs, input.path).entry.k = "dir"

PathInfoFor(input, info) ==
  /\ DOMAIN info = {"exists", "isSymlink", "isDirectory", "linkTarget"}
  /\ EntryAt(input).err # "" =>
       /\ ~info.exists /\ ~info.isSymlink /\ ~info.isDirectory
       /\ info.linkTarget = <<>>
  /\ (EntryAt(input).err = "" /\ EntryAt(input).entry.k # "link") =>
       /\ info.exists /\ ~info.isSymlink
       /\ info.linkTarget = <<>>
       /\ info.isDirectory = (EntryAt(input).entry.k = "dir")
  /\ IsLink(EntryAt(input)) =>
       /\ info.exists /\ info.isSymlink
       /\ info.linkTarget = EntryAt(input).entry.to
       /\ info.isDirectory = ResolvesToDir(input)
       /\ stat(input.fs, input.path).err # "" => ~info.isDirectory

\* C28: getPathInfo returns for every path; for a missing path exists,
\* isSymlink and isDirectory are false and linkTarget is null; for an
\* existing entry that is not a symlink linkTarget is null and isDirectory
\* is that of the entry; for a symlink linkTarget is its text and
\* isDirectory is whether the path resolves to a directory, false for a
\* broken link
C28_PathInfo ==
  app.pc = "returned" => PathInfoFor(app.input, app.output)

\* returned for a link to a directory
C28_Witness ==
  /\ app.pc = "returned"
  /\ IsLink(EntryAt(app.input))
  /\ ResolvesToDir(app.input)
  /\ app.output.isDirectory


(***************************************************************************)
(* runScripts(ctx, scriptNames).  config is config.scripts, names the      *)
(* requested names, at the position of the loop, started the commands      *)
(* spawned so far, in order.  A command exits with code 0 or 1.            *)
(***************************************************************************)
MaxScripts == 3

ScriptNames == {"a", "b"}
UnknownName == "c"

ScriptConfigs == [name : ScriptNames, optional : BOOLEAN]

NoScript == [name |-> "", optional |-> FALSE]

\* config.scripts?.find((s) => s.name === scriptName)
RECURSIVE Find(_, _)
Find(config, scriptName) ==
  IF config = <<>> THEN NoScript
  ELSE IF Head(config).name = scriptName THEN Head(config)
       ELSE Find(Tail(config), scriptName)

ScriptResult(name, success, exitCode, skipped, reason) ==
  [name |-> name, success |-> success, exitCode |-> exitCode, skipped |-> skipped,
   reason |-> reason]

NotFoundResult(scriptName) == ScriptResult(scriptName, FALSE, 1, TRUE, "Script not found")

\* executeScript once the command has exited with a code
Exited(script, code) ==
  IF code # 0 /\ script.optional
  THEN ScriptResult(script.name, TRUE, code, FALSE,
                    "Command failed with exit code (optional, continuing)")
  ELSE IF code # 0
       THEN ScriptResult(script.name, FALSE, code, FALSE, "Command failed with exit code")
       ELSE ScriptResult(script.name, TRUE, code, FALSE, "")

\* runScript up to its first await: the result at once for a name that is
\* not found and in dry-run, the command spawned otherwise
Spawned(sc) ==
  [sc EXCEPT !.pc = "await", !.started = Append(sc.started, sc.names[sc.at])]

\* results.push(result), never leaving the loop
PushedNoBreak(sc, result) ==
  IF sc.at < Len(sc.names)
  THEN [sc EXCEPT !.pc = "loop", !.at = sc.at + 1,
                  !.results = Append(sc.results, result)]
  ELSE [sc EXCEPT !.pc = "returned", !.results = Append(sc.results, result)]

\* results.push(result), then break on a failure, the next name, or the
\* return after the last
Pushed(sc, result) ==
  IF ~result.success
  THEN [sc EXCEPT !.pc = "returned", !.results = Append(sc.results, result)]
  ELSE IF sc.at < Len(sc.names)
       THEN [sc EXCEPT !.pc = "loop", !.at = sc.at + 1,
                       !.results = Append(sc.results, result)]
       ELSE [sc EXCEPT !.pc = "returned", !.results = Append(sc.results, result)]

InitScripts ==
  /\ NoRun
  /\ call = NoCall
  /\ pl = NoPool
  /\ app = NoApp
  /\ levels = NoLevels
  /\ \E config \in SeqsUpTo(ScriptConfigs, MaxScripts),
        names \in SeqsUpTo(ScriptNames \cup {UnknownName}, MaxScripts),
        dryRun \in BOOLEAN :
       scripts = [NoScripts EXCEPT !.pc = IF names = <<>> THEN "returned" ELSE "loop",
                                   !.config = config, !.names = names,
                                   !.dryRun = dryRun, !.at = 1]

\* one turn of the loop up to its await
RunScript ==
  /\ scripts.pc = "loop"
  /\ scripts' =
       IF Find(scripts.config, scripts.names[scripts.at]) = NoScript
       THEN Pushed(scripts, NotFoundResult(scripts.names[scripts.at]))
       ELSE IF scripts.dryRun
            THEN Pushed(scripts, ScriptResult(scripts.names[scripts.at], TRUE, 0, FALSE, ""))
            ELSE Spawned(scripts)
  /\ UNCHANGED <<runVars, call, pl, app, levels>>

\* the command has exited
ScriptExit ==
  /\ scripts.pc = "await"
  /\ \E code \in {0, 1} :
       scripts' = Pushed(scripts, Exited(Find(scripts.config, scripts.names[scripts.at]),
                                         code))
  /\ UNCHANGED <<runVars, call, pl, app, levels>>

NextScripts == RunScript \/ ScriptExit

SpecScripts == InitScripts /\ [][NextScripts]_vars

\* the command of the script at position i of names failed, and the script
\* is optional or not
FailedAt(i, optional) ==
  /\ i <= Len(scripts.results)
  /\ ~scripts.results[i].skipped
  /\ scripts.results[i].exitCode # 0
  /\ Find(scripts.config, scripts.names[i]).optional = optional

\* C29: scripts are started in the requested order; after the first script
\* that fails and is not optional no later script is started; the failure
\* of an optional script is recorded as success and the later scripts run
C29_ScriptOrder ==
  /\ scripts.started = SubSeq(scripts.names, 1, Len(scripts.started))
  /\ \A i \in Indices(scripts.results) : scripts.results[i].name = scripts.names[i]
  /\ \A i \in Indices(scripts.names) :
       /\ FailedAt(i, FALSE) =>
            /\ ~scripts.results[i].success
            /\ scripts.pc = "returned"
            /\ Len(scripts.results) = i
            /\ Len(scripts.started) = i
       /\ FailedAt(i, TRUE) =>
            /\ scripts.results[i].success
            /\ i < Len(scripts.names) =>
                 \/ scripts.pc = "loop" /\ scripts.at = i + 1
                 \/ Len(scripts.started) > i
                 \/ Len(scripts.results) > i

\* an optional script failed and was recorded as success, the next script
\* was started and failed, and the third was never started
C29_Witness ==
  /\ scripts.pc = "returned"
  /\ Len(scripts.names) = 3
  /\ FailedAt(1, TRUE)
  /\ scripts.results[1].success
  /\ FailedAt(2, FALSE)
  /\ Len(scripts.started) = 2


(***************************************************************************)
(* parseWorktreeListOutput(output).  The output of git worktree list is a  *)
(* sequence of lines, a line the words a space separates: the line         *)
(* "worktree /a" is <<"worktree", "/a">>, the empty line is <<>>.  A field *)
(* that is not set is the empty string.                                    *)
(***************************************************************************)
MaxLines == 7

OutputLines ==
  {<<"worktree", "/a">>, <<"worktree", "/b">>, <<"HEAD", "abc123">>,
   <<"branch", "refs/heads/main">>, <<>>}

\* text.trim() on lines: the empty lines at both ends go
RECURSIVE TrimStart(_)
TrimStart(lines) ==
  IF lines # <<>> /\ Head(lines) = <<>> THEN TrimStart(Tail(lines)) ELSE lines

RECURSIVE TrimEnd(_)
TrimEnd(lines) ==
  IF lines # <<>> /\ lines[Len(lines)] = <<>>
  THEN TrimEnd(SubSeq(lines, 1, Len(lines) - 1)) ELSE lines

Trim(lines) == TrimEnd(TrimStart(lines))

\* the places of "\n\n" in the text: an empty line that follows a line
Separators(lines) == {i \in 2..Len(lines) : lines[i] = <<>>}

First(S) == CHOOSE i \in S : \A j \in S : i <= j

\* text.split("\n\n"): cut at the first separator, then split what follows
RECURSIVE SplitBlocks(_)
SplitBlocks(lines) ==
  IF Separators(lines) = {} THEN <<lines>>
  ELSE <<SubSeq(lines, 1, First(Separators(lines)) - 1)>>
         \o SplitBlocks(SubSeq(lines, First(Separators(lines)) + 1, Len(lines)))

\* "refs/heads/main".replace("refs/heads/", "")
ShortBranch(fullRef) == IF fullRef = "refs/heads/main" THEN "main" ELSE fullRef

\* line.startsWith(keyword + " "), and line.slice of what follows it
StartsWith(line, keyword) == Len(line) = 2 /\ line[1] = keyword
NewWorktree == [path |-> "", head |-> "", branch |-> "", isMain |-> FALSE]

ParseLine(worktree, line) ==
  IF StartsWith(line, "worktree") THEN [worktree EXCEPT !.path = line[2]]
  ELSE IF StartsWith(line, "HEAD") THEN [worktree EXCEPT !.head = line[2]]
  ELSE IF StartsWith(line, "branch") THEN [worktree EXCEPT !.branch = ShortBranch(line[2])]
  ELSE worktree

RECURSIVE ParseLines(_, _)
ParseLines(worktree, lines) ==
  IF lines = <<>> THEN worktree
  ELSE ParseLines(ParseLine(worktree, Head(lines)), Tail(lines))

\* worktrees.push(worktree) whatever its fields
PushAny(worktrees, worktree) == Append(worktrees, worktree)

\* if (worktree.path && worktree.head) worktrees.push(worktree)
PushValid(worktrees, worktree) ==
  IF worktree.path # "" /\ worktree.head # "" THEN Append(worktrees, worktree)
  ELSE worktrees

RECURSIVE ParseBlocks(_, _)
ParseBlocks(worktrees, blocks) ==
  IF blocks = <<>> THEN worktrees
  ELSE IF Trim(Head(blocks)) = <<>> THEN ParseBlocks(worktrees, Tail(blocks))
       ELSE ParseBlocks(PushValid(worktrees, ParseLines(NewWorktree, Trim(Head(blocks)))),
                        Tail(blocks))

\* worktrees[0].isMain = true
MarkMain(worktrees) ==
  IF Len(worktrees) > 0 THEN [worktrees EXCEPT ![1].isMain = TRUE] ELSE worktrees

parseWorktreeListOutput(output) ==
  MarkMain(ParseBlocks(<<>>, SplitBlocks(Trim(output))))

InitParse ==
  /\ NoRun
  /\ call = NoCall
  /\ pl = NoPool
  /\ levels = NoLevels
  /\ scripts = NoScripts
  /\ \E output \in SeqsUpTo(OutputLines, MaxLines) : app = Called(output)

ParseReturn ==
  /\ app.pc = "called"
  /\ app' = Returns(parseWorktreeListOutput(app.input))
  /\ UNCHANGED <<runVars, call, pl, levels, scripts>>

NextParse == ParseReturn

SpecParse == InitParse /\ [][NextParse]_vars

\* the blocks of an output: the runs of lines between empty lines, each
\* named by the place of its first line
BlockStarts(output) ==
  {i \in Indices(output) : output[i] # <<>> /\ (i = 1 \/ output[i - 1] = <<>>)}
InBlock(output, s, i) == s <= i /\ i <= Len(output) /\ \A j \in s..i : output[j] # <<>>
HasField(output, s, keyword) ==
  \E i \in Indices(output) : InBlock(output, s, i) /\ StartsWith(output[i], keyword)
Complete(output) ==
  {s \in BlockStarts(output) :
     HasField(output, s, "worktree") /\ HasField(output, s, "HEAD")}
Rank(output, s) == Cardinality({t \in Complete(output) : t <= s})

\* C30: parseWorktreeListOutput returns one worktree per block that has
\* both a worktree path and a HEAD, in input order, and none for a block
\* that lacks one of them; when the result is not empty its first element
\* has isMain true and every other element isMain false
C30_ParseWorktreeList ==
  app.pc = "returned" =>
    /\ Len(app.output) = Cardinality(Complete(app.input))
    /\ \A s \in Complete(app.input) :
         \E i \in Indices(app.input) :
           /\ InBlock(app.input, s, i)
           /\ app.input[i] = <<"worktree", app.output[Rank(app.input, s)].path>>
    /\ \A k \in Indices(app.output) : app.output[k].isMain = (k = 1)

\* a block without HEAD between two complete blocks
C30_Witness ==
  /\ app.pc = "returned"
  /\ Len(app.input) = 7
  /\ Cardinality(BlockStarts(app.input)) = 3
  /\ Complete(app.input) = {1, 6}
  /\ Len(app.output) = 2
  /\ app.output[1].path # app.output[2].path


(***************************************************************************)
(* C31.  The indices of one parallelLimit call: claimed below pl.index,    *)
(* each claimed index with one worker suspended on its call or with its    *)
(* result stored, never both.                                              *)
(***************************************************************************)
HoldersOf(i) ==
  {w \in Indices(pl.workers) :
     pl.workers[w].pc = "await" /\ pl.workers[w].currentIndex = i}

Stored(i) == i < Len(pl.results) /\ pl.results[i + 1] # Hole

\* C31: every index in 0..N-1 is claimed by exactly one worker, none twice
\* and none skipped, whatever the number of workers and the order of their
\* steps, and the call returns only after all N calls of fn have completed
C31_EachIndexOnce ==
  pl.pc \in {"all", "returned"} =>
    /\ pl.index <= Len(pl.items)
    /\ \A i \in 0..(MaxItems - 1) :
         /\ i < pl.index =>
              /\ Cardinality(HoldersOf(i)) <= 1
              /\ (Cardinality(HoldersOf(i)) = 1) # Stored(i)
         /\ i >= pl.index => (HoldersOf(i) = {} /\ ~Stored(i))
    /\ pl.pc = "returned" =>
         /\ pl.index = Len(pl.items)
         /\ \A i \in 0..(Len(pl.items) - 1) : Stored(i) /\ HoldersOf(i) = {}

\* three workers on four items: one result stored, the last index claimed,
\* three calls in flight
C31_Witness ==
  /\ pl.pc = "all"
  /\ Len(pl.items) = 4
  /\ pl.limit = 3
  /\ pl.index = 4
  /\ Stored(1)
  /\ Cardinality(HoldersOf(0)) = 1
  /\ Cardinality(HoldersOf(3)) = 1


(***************************************************************************)
(* C32.  The entries of a tree traversal that the exclusion matcher        *)
(* matches.  The matcher is applied to the path relative to the source     *)
(* root.                                                                   *)
(***************************************************************************)
MatcherMatches(rel) ==
  \E i \in Indices(compiledExclude) : GlobMatch(compiledExclude[i], rel)

\* an entry beneath the path of the tree rule in progress
EntryOfRule(p) ==
  /\ phase = "tree"
  /\ p \in Beneath(cfg.tree[ruleIdx])

\* the path lies at or beneath an entry of the rule that the matcher matches
UnderExcluded(q) ==
  \E p \in UnitPaths : EntryOfRule(p) /\ MatcherMatches(p) /\ IsPrefix(p, q)

ExcludedUntouched ==
  /\ \A p \in UnitPaths :
       (EntryOfRule(p) /\ MatcherMatches(p)) =>
         /\ units[p] \in {IdleUnit, Unit("excluded", NoFrame, <<>>, <<>>),
                          Unit("done", NoFrame, <<>>, <<>>)}
         /\ \A q \in Beneath(p) : units[q] = IdleUnit
  /\ phase = "tree" =>
       /\ units[cfg.tree[ruleIdx]].pc \notin {"idle", "excluded", "probe"}
       /\ UnitDone(units, cfg.tree[ruleIdx]) =>
            \A i \in Indices(UnitOut(units, cfg.tree[ruleIdx])) :
              ~UnderExcluded(relative(rootPath, UnitOut(units, cfg.tree[ruleIdx])[i].source))

\* a change of the file system during a tree rule is the step of a
\* createSymlink call for an entry that is not excluded
ChangeByIncluded ==
  (phase = "tree" /\ fs' # fs) =>
    \E p \in UnitPaths :
      /\ units[p].pc = "cs"
      /\ units'[p] # units[p]
      /\ ~UnderExcluded(p)

OneRuleInProgress ==
  IF phase = "tree"
  THEN /\ ruleIdx \in Indices(cfg.tree)
       /\ \A p \in UnitPaths :
            units[p] # IdleUnit =>
              \/ p = cfg.tree[ruleIdx]
              \/ /\ p \in Beneath(cfg.tree[ruleIdx])
                 /\ units[dirname(p)].pc = "join"
  ELSE units = NoUnits

\* the next rule starts when the rule in progress has returned, and the
\* list grows by the outcomes of that rule
RuleAfterRule ==
  (phase = "tree" /\ (ruleIdx' # ruleIdx \/ phase' # "tree")) =>
    /\ UnitDone(units, cfg.tree[ruleIdx])
    /\ results' = results \o UnitOut(units, cfg.tree[ruleIdx])
    /\ IF ruleIdx < Len(cfg.tree)
       THEN /\ phase' = "tree"
            /\ ruleIdx' = ruleIdx + 1
            /\ units' = [NoUnits EXCEPT ![cfg.tree[ruleIdx + 1]] =
                           Unit("readdir", NoFrame, <<>>, <<>>)]
       ELSE phase' = "patterns"

\* C33: tree rules are processed one after another in configuration order:
\* the traversal of rule i+1 does not start before that of rule i has
\* completed, and the returned list holds the outcomes of rule i before
\* those of rule i+1
C33_TreeRulesInOrder ==
  /\ []OneRuleInProgress
  /\ [][RuleAfterRule]_vars

\* the second of two tree rules is running for real, the outcome of the
\* first already in the list
C33_Witness ==
  /\ phase = "tree"
  /\ ~DryRun
  /\ cfg.tree = << <<"d", "f">>, <<"d">> >>
  /\ ruleIdx = 2
  /\ Len(results) = 1
  /\ results[1].action = "created"
  /\ units[<<"d">>].pc = "join"
  /\ units[<<"d", "f">>].pc = "cs"


Faults == {"PermissionDenied", "AlreadyExists", "NotFound", "NotADirectory"}

\* the system call the frame is suspended at fails with e: getPathInfo
\* catches the error of lstat and answers "does not exist", the errors of
\* Deno.symlink and ensureDir go to the handlers of createSymlink
CsFault(fr, f, e) ==
  CASE fr.pc = "src" ->
         SourceProbed(fr, f, PathInfoOf(f, fr.source, lstatAt(f, Err(e))))
    [] fr.pc = "dryprobe" ->
         DryProbed(fr, f, PathInfoOf(f, fr.target, lstatAt(f, Err(e))))
    [] fr.pc = "try" -> Tried(fr, f, [err |-> e, fs |-> f])
    [] fr.pc = "probe" ->
         Reprobed(fr, f, PathInfoOf(f, fr.target, lstatAt(f, Err(e))))
    [] fr.pc = "mkdir" -> ParentEnsured(fr, f, [err |-> e, fs |-> f])
    [] fr.pc = "retry" -> Retried(fr, f, [err |-> e, fs |-> f])

\* an await of the dry-run call fails
FaultDry ==
  /\ call.dry.pc \notin {"none", "done"}
  /\ \E e \in Faults : DryStepped(CsFault(call.dry, call.dryFs, e))
  /\ UNCHANGED <<runVars, pl, app, levels, scripts>>

\* an await of the real call fails
FaultReal ==
  /\ call.real.pc \notin {"none", "done"}
  /\ \E e \in Faults : RealStepped(CsFault(call.real, call.realFs, e))
  /\ UNCHANGED <<runVars, pl, app, levels, scripts>>

NextFault == CallDry \/ CallReal \/ FaultDry \/ FaultReal

SpecFault == InitCall /\ [][NextFault]_vars

\* how far the call has come
AwaitRank(pc) ==
  CASE pc = "src" -> 0
    [] pc \in {"dryprobe", "try"} -> 1
    [] pc \in {"probe", "mkdir"} -> 2
    [] pc = "retry" -> 3
    [] OTHER -> 4

\* the call is suspended at one of its awaits or has returned a LinkOutcome
\* for its own source and target
AwaitingOrSettled(fr) ==
  \/ fr.pc \in Awaits
  \/ /\ fr.pc = "done"
     /\ fr.result.source = fr.source
     /\ fr.result.target = fr.target
     /\ fr.result.action \in {"created", "skipped", "error"}
     /\ fr.result.success = (fr.result.action # "error")

\* a step of the call keeps its arguments and brings it nearer to its return
Advances(fr, next) ==
  next # fr =>
    /\ next.source = fr.source /\ next.target = fr.target
    /\ next.dryRun = fr.dryRun
    /\ AwaitRank(next.pc) > AwaitRank(fr.pc)

\* C36: createSymlink never rejects: in every file system, under every
\* failure of a system call and in both modes the call goes from await to
\* await, at most four of them, and returns a LinkOutcome whose source and
\* target are its arguments
C36_NeverRejects ==
  /\ [](AwaitingOrSettled(call.dry) /\ AwaitingOrSettled(call.real))
  /\ [][Advances(call.dry, call'.dry) /\ Advances(call.real, call'.real)]_vars

\* an attempt of the real call failed with an error no handler names; the
\* dry-run call saw the probe of its target fail while the target is there
C36_Witness ==
  /\ call.real.pc = "done"
  /\ call.real.result = Failed(call.real, CreateFailed("PermissionDenied"))
  /\ call.dry.pc = "done"
  /\ call.dry.result.action = "created"
  /\ lstat(call.dryFs, call.dry.target).err = ""


(***************************************************************************)
(* C37.  A tree rule on a source tree that holds symbolic links: a link to *)
(* the directory that holds it, two links that name each other, or none.   *)
(* Every await of the traversal resolves (weak fairness of the steps).     *)
(***************************************************************************)
SourceVariants == {"plain", "parent", "child", "pair"}

\* the source tree with the links of variant v: S/d/dist a link to S/d,
\* S/d/f a link to S/d, or S/d/dist and S/d/f links to each other
SourceLinks(f, v) ==
  CASE v = "parent" ->
         [WithoutSource(f, <<"d", "dist">>) EXCEPT
            ![join(rootPath, <<"d", "dist">>)] = Link(join(rootPath, <<"d">>))]
    [] v = "child" ->
         [f EXCEPT ![join(rootPath, <<"d", "f">>)] = Link(join(rootPath, <<"d">>))]
    [] v = "pair" ->
         [WithoutSource(f, <<"d", "dist">>) EXCEPT
            ![join(rootPath, <<"d", "dist">>)] = Link(join(rootPath, <<"d", "f">>)),
            ![join(rootPath, <<"d", "f">>)] = Link(join(rootPath, <<"d", "dist">>))]
    [] OTHER -> f

InitCycle ==
  /\ \E f \in {g \in InitialFileSystems : WellFormed(g)}, v \in SourceVariants :
       fs0 = SourceLinks(f, v)
  /\ fs = fs0
  /\ cfg \in {c \in Configs : c.tree = << <<"d">> >> /\ Len(c.normal) = 0}
  /\ dryFirst \in BOOLEAN
  /\ run = 1
  /\ phase = "tree"
  /\ ruleIdx = 1
  /\ units = StartTree(cfg, 1)
  /\ pool = <<>>
  /\ results = <<>>
  /\ results1 = <<>>
  /\ call = NoCall
  /\ pl = NoPool
  /\ app = NoApp
  /\ levels = NoLevels
  /\ scripts = NoScripts

SpecCycle == InitCycle /\ [][NextTree]_vars /\ WF_vars(NextTree)

\* a call that reads a directory or recurses is on a source entry that is
\* not a link
EntriesNotFollowed ==
  \A p \in UnitPaths :
    units[p].pc \in {"probe", "readdir", "join"} =>
      Entry(fs, join(rootPath, p)).k # "link"

\* C37: the traversal of a tree rule terminates, also on a source tree
\* whose symbolic links form a cycle: a source entry that is a link is
\* linked as a leaf and never read as a directory, every entry of a level
\* runs without waiting for a slot of an enclosing level, and
\* processTreeSymlink returns
C37_TraversalTerminates ==
  /\ []EntriesNotFollowed
  /\ <>TreeReturned

\* a real traversal has returned on a source whose two links name each
\* other, and both were linked as leaves
C37_Witness ==
  /\ TreeReturned
  /\ ~dryFirst
  /\ fs0[join(rootPath, <<"d", "dist">>)] = Link(join(rootPath, <<"d", "f">>))
  /\ fs0[join(rootPath, <<"d", "f">>)] = Link(join(rootPath, <<"d", "dist">>))
  /\ fs[join(worktreePath, <<"d", "dist">>)] = Link(join(rootPath, <<"d", "dist">>))
  /\ fs[join(worktreePath, <<"d", "f">>)] = Link(join(rootPath, <<"d", "f">>))
  /\ \A i \in Indices(results) : results[i].action = "created"
  /\ Len(results) = 2


(***************************************************************************)
(* C38.  The legacy createSymlink, which probes the source and the target  *)
(* before it creates the parent directory and the link.  With no other     *)
(* actor the call runs on the file system it was started on, so it is its  *)
(* result as a function of that file system.                               *)
(***************************************************************************)
\* a probe that follows the link at the path
pathExistsByStat(f, p) == stat(f, p).err = ""

\* Deno.lstat(path) succeeds
pathExists(f, p) == lstat(f, p).err = ""

\* (await Deno.lstat(path)).isSymlink, false when lstat fails
isSymlink(f, p) == lstat(f, p).err = "" /\ lstat(f, p).entry.k = "link"

\* Deno.readLink(path)
readSymlink(f, p) == lstat(f, p).entry.to

ParentFailed(e) == [msg |-> "Failed to create parent directory", arg |-> <<e>>]

\* the link made in the directory ensureDir left
legacyLinked(fr, r) ==
  IF r.err = "" THEN Created(fr) ELSE Failed(fr, CreateFailed(r.err))

\* ensureDir(dirname(target)), then Deno.symlink(source, target)
legacyCreate(fr, d) ==
  IF d.err # "" THEN Failed(fr, ParentFailed(d.err))
  ELSE legacyLinked(fr, symlink(d.fs, fr.source, fr.target))

\* createSymlink(source, target, dryRun) of the legacy engine
legacyCreateSymlink(f, fr) ==
  IF ~pathExists(f, fr.source) THEN Failed(fr, SourceMissing(fr.source))
  ELSE IF pathExists(f, fr.target)
       THEN IF isSymlink(f, fr.target)
            THEN IF readSymlink(f, fr.target) = fr.source
                 THEN Skipped(fr, AlreadyCorrect)
                 ELSE Skipped(fr, OtherLink(readSymlink(f, fr.target)))
            ELSE Skipped(fr, LocalOverride)
       ELSE IF fr.dryRun THEN Created(fr)
            ELSE CHOOSE o \in {legacyCreate(fr, d) :
                                 d \in {ensureDir(f, dirname(fr.target))}} : TRUE

\* C38: the optimistic createSymlink, which attempts the link and probes
\* the target only when the attempt fails, returns the action the legacy
\* createSymlink returns, from every state of the source, the target and
\* the target's parent directory and in both modes, when nothing else
\* changes the file system during the call
C38_SameActionAsLegacy ==
  /\ call.dry.pc = "done" =>
       call.dry.result.action = legacyCreateSymlink(call.fs, call.dry).action
  /\ call.real.pc = "done" =>
       call.real.result.action = legacyCreateSymlink(call.fs, call.real).action

\* the target's parent is a link to a directory that is missing: neither
\* engine can make the parent, and both report an error
C38_Witness ==
  /\ call.real.pc = "done"
  /\ call.real.targetInfo = NoTargetInfo
  /\ call.fs[dirname(call.real.target)].k = "link"
  /\ stat(call.fs, dirname(call.real.target)).err = "NotFound"
  /\ call.real.result.action = "error"
  /\ legacyCreateSymlink(call.fs, call.real).reason = ParentFailed("NotFound")


(***************************************************************************)
(* C39.  What a created outcome of a real run stands for.                  *)
(***************************************************************************)
\* the target of the outcome is a symbolic link with the source as its text
LinkMade(o) ==
  /\ IsLink(lstat(fs, o.target))
  /\ lstat(fs, o.target).entry.to = o.source

\* the outcomes that createSymlink calls of the run have returned so far
ReturnedOutcomes ==
  {results[i] : i \in Indices(results)}
    \cup UNION {{units[p].out[i] : i \in Indices(units[p].out)} : p \in UnitPaths}
    \cup {pool[i].result : i \in {j \in Indices(pool) : pool[j].pc = "done"}}

\* C39: in a real run an outcome with action created is returned only
\* after the link was made: from the return of its call to the return of
\* processSymlinks the target is a symlink whose text is the outcome's
\* source
C39_CreatedMeansLinked ==
  ~DryRun =>
    \A o \in ReturnedOutcomes : o.action = "created" => LinkMade(o)

\* a real run has returned a created outcome of a tree rule and one of a
\* pattern rule, the second after a retry in a parent directory it made
C39_Witness ==
  /\ RunReturned(1, FALSE)
  /\ Len(results) = 2
  /\ results[1].action = "created" /\ results[2].action = "created"
  /\ results[1].target = join(worktreePath, <<"d", "f">>)
  /\ results[2].target = join(worktreePath, <<"d", "dist", "h">>)
  /\ fs0[join(worktreePath, <<"d", "dist">>)].k = "none"
  /\ LinkMade(results[1]) /\ LinkMade(results[2])


(***************************************************************************)
(* C40.  Several calls for one target.                                     *)
(***************************************************************************)
\* the places in the returned list of the outcomes with action created
CreatedAt == {i \in Indices(results) : results[i].action = "created"}

\* C40: in a real run no two outcomes with action created have the same
\* target path, also when a tree rule and a pattern rule overlap or a path
\* is matched twice and several calls attempt one target at the same time:
\* one attempt wins and the others are not reported as created
C40_OneCreatedPerTarget ==
  ~DryRun =>
    \A i, j \in CreatedAt : results[i].target = results[j].target => i = j

\* two calls of the pattern pool for the target T/d/f have returned, one
\* with created and the other not
C40_Witness ==
  /\ RunReturned(1, FALSE)
  /\ Len(results) = 2
  /\ results[1].target = results[2].target
  /\ results[2].action = "created"
  /\ results[1].action = "error"

=============================================================================
